---- MODULE Spec2Model ----
(***************************************************************************)
(* Verification model of ANSSI-FR/route_leaks (python 2).                  *)
(*                                                                         *)
(*  - FindPeaks            heuristics/detect_route_leaks.py                *)
(*  - _BaseFindRouteLeaks / _PyFindRouteLeaks (the pure python detector)   *)
(*  - CreateClassifBaseData (classification/classification.py)             *)
(*                                                                         *)
(* Python indexes are 0-based and are kept 0-based here: At(data, i) is    *)
(* data[i].  The detector stores its parameters as floats; the model       *)
(* keeps the two *_peak_min_value parameters and max_nb_peaks as integers  *)
(* and the two percent_* parameters in tenths (9 is 0.9), and compares     *)
(* exactly where the code compares floating point numbers.                 *)
(***************************************************************************)
EXTENDS Integers, Sequences, FiniteSets, TLC

VARIABLES
    \* ---- one FindPeaks object (SpecPeaks) ----
    fp_pc,          \* "new", "ready", "done", "ValueError", "IndexError"
    fp_data,        \* FindPeaks.data
    fp_params,      \* peak_min_value, max_nb_peaks, percent_sim, percent_std
    fp_big_maxes,   \* FindPeaks.big_maxes
    \* ---- the detector (Spec) ----
    pc,             \* "new", "ready", "ValueError"
    pfx_file,       \* content of the prefixes input: [start_date, data]
    cfl_file,       \* content of the conflicts input: [start_date, data]
    pfx_data,       \* _BaseFindRouteLeaks.pfx_data
    cfl_data,       \* _BaseFindRouteLeaks.cfl_data
    params,         \* _BaseFindRouteLeaks._params
    start,          \* _BaseFindRouteLeaks._start
    pfx_unique_data,\* _PyFindRouteLeaks._pfx_unique_data
    cfl_unique_data,\* _PyFindRouteLeaks._cfl_unique_data
    pfx_dupl_ases,  \* _PyFindRouteLeaks._pfx_dupl_ases
    cfl_dupl_ases,  \* _PyFindRouteLeaks._cfl_dupl_ases
    pfx_peaks,      \* local pfx_peaks of the last get_route_leaks call
    cfl_peaks,      \* local cfl_peaks of the last get_route_leaks call
    route_leaks,    \* value returned by the last get_route_leaks call
    call,           \* the last get_route_leaks call: [status, kwargs, before]
    \* ---- the classifier's base data (Spec) ----
    clf_pc,         \* "off", "new", "loaded", "ZeroDivisionError"
    raw_file,       \* content of the file given to CreateClassifBaseData
    raw_loaded_data,\* CreateClassifBaseData.raw_loaded_data
    var_data,       \* CreateClassifBaseData.var_data
    \* ---- one FindPeaks object whose data are smoothed (SpecSmooth) ----
    sm_pc,          \* "off", "ready", "done", "ZeroDivisionError"
    sm_input,       \* the list given to FindPeaks, as it was at construction
    sm_data,        \* FindPeaks.data
    sm_peak_min_value, \* FindPeaks.peak_min_value
    sm_calls,       \* number of speculate_missing_values calls made
    \* ---- ApplyModel and the AttributeMakers class (SpecClassif) ----
    ap_pc,          \* "off", "new", "ready" (classifier loaded)
    ap_model_files, \* which of svm_model.p and model_svm_input.json exist
    ap_paths,       \* the load paths get_model_svm_classifier has run
    am_class,         \* AttributeMakers.attribute_makers and _makers_names
    ap_pfx_file,    \* content of the prefixes file to classify
    ap_cfl_file,    \* content of the conflicts file to classify
    ap_attr,        \* what create_svm_input left in the last attr_maker
    ap_result,      \* value returned by the last get_classification_result
    ap_call,        \* [status, nb]: outcome of the last call, calls made
    \* ---- one ParamValue object and its pool of workers (SpecSweep) ----
    sw_pc,          \* "off", "new", "built", "pool", "done", "ValueError"
    sw_name,        \* the param_name given to ParamValue
    sw_finder,      \* the data of ParamValue.leaks_finder.finder
    sw_params,      \* ParamValue.leaks_finder.finder._params in the parent process
    sw_next,        \* number of tasks handed out by the pool
    sw_workers,     \* for each worker: its copy of _params, the index of its task
    sw_outqueue,    \* results put by the workers and not yet yielded
    sw_nb_leaks,    \* ParamValue.nb_leaks
    \* ---- one FittedFindRouteLeaks object (SpecFitted) ----
    ft_pc,          \* "off", "new", "ready"
    ft_supplied,    \* the keyword arguments params of the constructor
    ft_lr_data,     \* FittedFindRouteLeaks.lr_data (res)
    ft_params,      \* FittedFindRouteLeaks.finder._params
    \* ---- one ParamValue object after calc_nb_leaks (SpecBreak) ----
    bp_pc,          \* "off", "counted", "done"
    bp_name,        \* the param_name of the object
    bp_nb_leaks,    \* ParamValue.nb_leaks
    bp_res,         \* the list res of _get_3lr_res
    bp_best,        \* what get_param_optimized_values returns
    \* ---- the diagnostic methods of the FindPeaks object (SpecDiag) ----
    rc_idx,         \* the idx of the last call of get_rejection_cause, -1: none
    rc_cause,       \* the first element of what this call returned
    ci_info,        \* what the last call of get_check_info_by_param returned
    \* ---- one merged store of prepare.py (SpecPrepare) ----
    md_store,       \* merged_data
    md_recorded     \* for each call of update_day, the keys its day data named

fp_vars == <<fp_pc, fp_data, fp_params, fp_big_maxes>>
det_vars == <<pc, pfx_file, cfl_file, pfx_data, cfl_data, params, start,
              pfx_unique_data, cfl_unique_data, pfx_dupl_ases, cfl_dupl_ases,
              pfx_peaks, cfl_peaks, route_leaks, call>>
clf_vars == <<clf_pc, raw_file, raw_loaded_data, var_data>>
sm_vars == <<sm_pc, sm_input, sm_data, sm_peak_min_value, sm_calls>>
\* the variables of the specifications other than Spec and SpecPeaks
ap_vars == <<ap_pc, ap_model_files, ap_paths, am_class, ap_pfx_file, ap_cfl_file,
             ap_attr, ap_result, ap_call>>
sw_vars == <<sw_pc, sw_name, sw_finder, sw_params, sw_next, sw_workers, sw_outqueue,
             sw_nb_leaks>>
ft_vars == <<ft_pc, ft_supplied, ft_lr_data, ft_params>>
bp_vars == <<bp_pc, bp_name, bp_nb_leaks, bp_res, bp_best>>
dg_vars == <<rc_idx, rc_cause, ci_info>>
md_vars == <<md_store, md_recorded>>
more_vars == <<bp_vars, dg_vars, md_vars>>
ext_vars == <<sm_vars, ap_vars, sw_vars, ft_vars, more_vars>>
vars == <<fp_vars, det_vars, clf_vars, ext_vars>>

(***************************************************************************)
(* Program constants                                                       *)
(***************************************************************************)
MIN_NB_DAYS == 31
MAX_NB_ZERO_TO_RM == 5

\* None, written as the empty tuple so that it compares with dates and dicts
None == <<>>

(***************************************************************************)
(* Sequences as python lists                                               *)
(***************************************************************************)
At(data, i) == data[i + 1]

RECURSIVE SumSeq(_)
SumSeq(s) == IF s = <<>> THEN 0 ELSE Head(s) + SumSeq(Tail(s))

RECURSIVE SumSq(_)
SumSq(s) == IF s = <<>> THEN 0 ELSE Head(s) * Head(s) + SumSq(Tail(s))

RECURSIVE MaxSeq(_)
MaxSeq(s) == IF Len(s) = 1 THEN s[1]
             ELSE LET m == MaxSeq(Tail(s)) IN IF Head(s) >= m THEN Head(s) ELSE m

\* the elements of a sequence of indexes
Range(s) == {s[k] : k \in DOMAIN s}

\* [elt for i, elt in enumerate(data) if i not in indexes]
RECURSIVE Without(_, _, _)
Without(data, indexes, i) ==
    IF i >= Len(data) THEN <<>>
    ELSE IF i \in indexes THEN Without(data, indexes, i + 1)
         ELSE <<At(data, i)>> \o Without(data, indexes, i + 1)

\* a/b < c/d for a, c >= 0 and b, d > 0, without forming the cross products
RECURSIVE FracLess(_, _, _, _)
FracLess(a, b, c, d) ==
    LET q1 == a \div b
        q2 == c \div d
        r1 == a % b
        r2 == c % d
    IN  IF q1 # q2 THEN q1 < q2
        ELSE IF r2 = 0 THEN FALSE
        ELSE IF r1 = 0 THEN TRUE
        ELSE FracLess(d, r2, b, r1)

(***************************************************************************)
(* FindPeaks                                                               *)
(***************************************************************************)
\* numerator of the population variance of s over Len(s)^2 (np.std squared)
VarNum(s) == Len(s) * SumSq(s) - SumSeq(s) * SumSeq(s)

\* variant looking at the rise only
_is_big_enough_up(up, down, peak_min_value) == up > peak_min_value

_is_big_enough(up, down, peak_min_value) ==
    (up > peak_min_value) /\ (-down > peak_min_value)

_is_close_to_abs_max(data, index, percent_sim) ==
    At(data, index) * 10 >= percent_sim * MaxSeq(data)

\* variant accepting one more similar local maximum
_has_few_enough_peaks_more(data, index, local_maxes_indexes, max_nb_peaks) ==
    LET similar_values == SelectSeq(local_maxes_indexes,
                                    LAMBDA elt : At(data, elt) >= At(data, index))
    IN  Len(similar_values) <= max_nb_peaks + 1

_has_few_enough_peaks(data, index, local_maxes_indexes, max_nb_peaks) ==
    LET similar_values == SelectSeq(local_maxes_indexes,
                                    LAMBDA elt : At(data, elt) >= At(data, index))
    IN  Len(similar_values) <= max_nb_peaks

\* variant finding every variation significant
_check_std_variation_always(data, indexes_to_check, percent_std) == TRUE

\* smooth_std < std * percent_std, on the squares:
\* VarNum(smooth)/m^2 < VarNum(data) * percent_std^2 / (n^2 * 100)
_check_std_variation(data, indexes_to_check, percent_std) ==
    LET smooth_data == Without(data, Range(indexes_to_check), 0)
        n == Len(data)
        m == Len(smooth_data)
    IN  FracLess(VarNum(smooth_data), m * m,
                 VarNum(data) * percent_std * percent_std, n * n * 100)

\* variant keeping the local maximums whose variations are not both bigger
\* than peak_min_value
BigMaxesLoop_small(data, i, prev_variation, big_maxes, p) ==
    big_maxes \o
    SelectSeq([k \in 1..(Len(data) - 1 - i) |-> i + k - 1],
              LAMBDA j : /\ (At(data, j) > At(data, j - 1)) /\ (At(data, j) > At(data, j + 1))
                         /\ ~_is_big_enough(At(data, j) - At(data, j - 1),
                                            At(data, j + 1) - At(data, j), p.peak_min_value)
                         /\ _is_close_to_abs_max(data, j, p.percent_sim))

\* the for loop of get_big_maxes, from index i on
RECURSIVE BigMaxesLoop(_, _, _, _, _)
BigMaxesLoop(data, i, prev_variation, big_maxes, p) ==
    IF i >= Len(data) - 1 THEN big_maxes
    ELSE LET prev_val == At(data, i - 1)
             cur_val == At(data, i)
             next_val == At(data, i + 1)
             cur_variation == next_val - cur_val
             found == /\ (cur_val > prev_val) /\ (cur_val > next_val)
                      /\ _is_big_enough(prev_variation, cur_variation, p.peak_min_value)
                      /\ _is_close_to_abs_max(data, i, p.percent_sim)
         IN  BigMaxesLoop(data, i + 1, cur_variation,
                          IF found THEN Append(big_maxes, i) ELSE big_maxes, p)

\* get_big_maxes on a fresh FindPeaks object (big_maxes = []), Len(data) >= 2
get_big_maxes(data, p) ==
    LET first == BigMaxesLoop(data, 1, At(data, 1) - At(data, 0), <<>>, p)
        big_maxes == SelectSeq(first,
                       LAMBDA i : _has_few_enough_peaks(data, i, first, p.max_nb_peaks))
    IN  IF big_maxes = <<>> \/ _check_std_variation(data, big_maxes, p.percent_std)
        THEN big_maxes
        ELSE <<>>

(***************************************************************************)
(* Bounds and input sets of the FindPeaks specification                    *)
(***************************************************************************)
MaxLen == 5
MaxVal == 2

FPSeries == UNION {[1..n -> 0..MaxVal] : n \in 0..MaxLen}
FPParams == [peak_min_value : {0, 1}, max_nb_peaks : {1, 2},
             percent_sim : {0, 9}, percent_std : {9, 10, 20}]

NoParams == [peak_min_value |-> 0, max_nb_peaks |-> 0, percent_sim |-> 0, percent_std |-> 0]

FPIdle == /\ fp_pc = "off" /\ fp_data = <<>> /\ fp_params = NoParams /\ fp_big_maxes = <<>>

(***************************************************************************)
(* FindPeaks as an object: constructor and get_big_maxes                   *)
(***************************************************************************)
\* FindPeaks.__init__: max(self.data) raises ValueError on an empty list
FindPeaks_init ==
    /\ fp_pc = "new"
    /\ fp_pc' = IF fp_data = <<>> THEN "ValueError" ELSE "ready"
    /\ UNCHANGED <<fp_data, fp_params, fp_big_maxes>>

\* FindPeaks.get_big_maxes: self.data[1] raises IndexError on a one element list
FindPeaks_get_big_maxes ==
    /\ fp_pc = "ready"
    /\ IF Len(fp_data) < 2
       THEN fp_pc' = "IndexError" /\ UNCHANGED fp_big_maxes
       ELSE fp_pc' = "done" /\ fp_big_maxes' = get_big_maxes(fp_data, fp_params)
    /\ UNCHANGED <<fp_data, fp_params>>

(***************************************************************************)
(* Dates: "%Y-%m-%d" strings are modelled as <<year, month, day>>; the     *)
(* text order of the zero padded strings is the order DateLess.            *)
(***************************************************************************)
IsLeap(y) == (y % 4 = 0 /\ y % 100 # 0) \/ y % 400 = 0

DaysInMonth(y, m) ==
    IF m = 2 THEN (IF IsLeap(y) THEN 29 ELSE 28)
    ELSE IF m \in {4, 6, 9, 11} THEN 30 ELSE 31

\* datetime + timedelta(n), n >= 0
RECURSIVE AddDays(_, _)
AddDays(date, n) ==
    IF n = 0 THEN date
    ELSE LET y == date[1]
             m == date[2]
             d == date[3]
         IN  IF d < DaysInMonth(y, m) THEN AddDays(<<y, m, d + 1>>, n - 1)
             ELSE IF m < 12 THEN AddDays(<<y, m + 1, 1>>, n - 1)
             ELSE AddDays(<<y + 1, 1, 1>>, n - 1)

DateLess(a, b) ==
    \/ a[1] < b[1]
    \/ a[1] = b[1] /\ a[2] < b[2]
    \/ a[1] = b[1] /\ a[2] = b[2] /\ a[3] < b[3]

(***************************************************************************)
(* Python dictionaries and sets                                            *)
(***************************************************************************)
EmptyDict == <<>>

\* the orders in which the keys of a dictionary may be iterated
Perms(S) == {f \in [1..Cardinality(S) -> S] : \A i, j \in DOMAIN f : i # j => f[i] # f[j]}

\* list(set) of CPython 2.7 for a set of small non-negative ints holding at
\* most 5 elements: hash(i) = i, 8 slots, the list follows the slots.  With
\* two elements sharing a slot or after a resize the order is left open.
RECURSIVE BySlot(_)
BySlot(S) ==
    IF S = {} THEN <<>>
    ELSE LET x == CHOOSE e \in S : \A o \in S : e % 8 <= o % 8
         IN  <<x>> \o BySlot(S \ {x})

ListOfSet(S) ==
    IF Cardinality(S) <= 5 /\ \A a, b \in S : a # b => a % 8 # b % 8
    THEN {BySlot(S)}
    ELSE Perms(S)

(***************************************************************************)
(* _BaseFindRouteLeaks / _PyFindRouteLeaks                                 *)
(***************************************************************************)
ParamNames == {"pfx_peak_min_value", "cfl_peak_min_value", "max_nb_peaks",
               "percent_similarity", "percent_std"}

\* FindPeaks keyword arguments built by find_pfx_n_cfl_peaks
PeakParams(prms, min_value_name) ==
    [peak_min_value |-> prms[min_value_name],
     max_nb_peaks |-> prms["max_nb_peaks"],
     percent_sim |-> prms["percent_similarity"],
     percent_std |-> prms["percent_std"]]

\* the loop of _fill_duplicates_struct over data.keys() taken in some order
RECURSIVE FillLoop(_, _, _, _)
FillLoop(order, data, dupl_ases, reversed_data) ==
    IF order = <<>> THEN [data |-> data, dupl_ases |-> dupl_ases]
    ELSE LET asn == Head(order)
             series == data[asn]
         IN  IF series \in DOMAIN reversed_data
             THEN LET base_asn == reversed_data[series]
                      old == IF base_asn \in DOMAIN dupl_ases
                             THEN dupl_ases[base_asn] ELSE <<>>
                  IN  FillLoop(Tail(order),
                               [a \in DOMAIN data \ {asn} |-> data[a]],
                               (base_asn :> Append(old, asn)) @@ dupl_ases,
                               reversed_data)
             ELSE FillLoop(Tail(order), data, dupl_ases,
                           (series :> asn) @@ reversed_data)

_fill_duplicates_struct(order, data) == FillLoop(order, data, EmptyDict, EmptyDict)


\* variant leaving the removed duplicates out of the peaks
PutBack_none(peaks, dupl_ases) == peaks

\* one side of _put_duplicates_back_to_peaks
PutBack(peaks, dupl_ases) ==
    LET dupl_of(asn) == IF asn \in DOMAIN dupl_ases THEN Range(dupl_ases[asn]) ELSE {}
        added == UNION {dupl_of(asn) : asn \in DOMAIN peaks}
    IN  [a \in DOMAIN peaks \cup added |->
            IF a \in DOMAIN peaks THEN peaks[a]
            ELSE peaks[CHOOSE asn \in DOMAIN peaks : a \in dupl_of(asn)]]

\* _map_leaks_indexes: identity without start date, else _map_leaks_indexes_to_dates
_map_leaks_indexes(start_, leaks_indexes) ==
    IF start_ = None THEN leaks_indexes
    ELSE [k \in DOMAIN leaks_indexes |-> AddDays(start_, leaks_indexes[k])]

\* variant which does not store the keyword arguments
ApplyKwargs_none(prms, kwargs) == prms

\* self._params after the keyword arguments have been applied
ApplyKwargs(prms, kwargs) ==
    [name \in DOMAIN prms |-> IF name \in DOMAIN kwargs THEN kwargs[name] ELSE prms[name]]

\* variant without the test "asn in pfx_peaks"
LeakSets_cfl(ppeaks, cpeaks) ==
    LET common(asn) == IF asn \in DOMAIN ppeaks
                       THEN Range(cpeaks[asn]) \cap Range(ppeaks[asn])
                       ELSE Range(cpeaks[asn])
    IN  [asn \in {a \in DOMAIN cpeaks : common(a) # {}} |-> common(asn)]

\* the ASes for which get_route_leaks builds a record, with their leak sets
LeakSets(ppeaks, cpeaks) ==
    LET both == {asn \in DOMAIN cpeaks : asn \in DOMAIN ppeaks}
        common(asn) == Range(cpeaks[asn]) \cap Range(ppeaks[asn])
    IN  [asn \in {a \in both : common(a) # {}} |-> common(asn)]

\* list(set(cfl_peaks[asn]) & set(pfx_peaks[asn])) for every asn of sets
LeakLists(sets) ==
    {leaks \in [DOMAIN sets -> UNION {ListOfSet(sets[a]) : a \in DOMAIN sets}] :
        \A a \in DOMAIN sets : leaks[a] \in ListOfSet(sets[a])}

(***************************************************************************)
(* Python numbers of the smoothed series: the rational n/d, f telling      *)
(* whether the value is a float (an int divided by an int is floored)      *)
(***************************************************************************)
RECURSIVE GCD(_, _)
GCD(a, b) == IF b = 0 THEN a ELSE GCD(b, a % b)

Abs(x) == IF x < 0 THEN -x ELSE x

Num(n, d, f) == LET g == GCD(Abs(n), d) IN [n |-> n \div g, d |-> d \div g, f |-> f]
IntNum(x) == [n |-> x, d |-> 1, f |-> FALSE]

NumAdd(a, b) == Num(a.n * b.d + b.n * a.d, a.d * b.d, a.f \/ b.f)
NumSub(a, b) == Num(a.n * b.d - b.n * a.d, a.d * b.d, a.f \/ b.f)
\* a / 2
NumHalf(a) == IF a.f THEN Num(a.n, 2 * a.d, TRUE) ELSE IntNum(a.n \div 2)
\* abs(a - b) < k for an integer k
NumNear(a, b, k) == Abs(a.n * b.d - b.n * a.d) < k * a.d * b.d

\* sum(s), added by halves
RECURSIVE NumSum(_)
NumSum(s) ==
    IF s = <<>> THEN IntNum(0)
    ELSE IF Len(s) = 1 THEN NumAdd(s[1], IntNum(0))
    ELSE LET h == Len(s) \div 2
         IN  NumAdd(NumSum(SubSeq(s, 1, h)), NumSum(SubSeq(s, h + 1, Len(s))))

(***************************************************************************)
(* FindPeaks.speculate_missing_values, peak_min_value an int               *)
(***************************************************************************)
_find_mock_value(hint, avg, peak_min_value) ==
    IF NumNear(hint, avg, peak_min_value \div 2) THEN hint ELSE avg

\* the for loop of speculate_missing_values from index i on; data is the
\* list as already rewritten at the indexes below i; the iterations on the
\* values other than 0 do nothing
RECURSIVE SpeculateLoop(_, _, _, _)
SpeculateLoop(data, from, avg, peak_min_value) ==
    IF \A j \in from..(Len(data) - 1) : At(data, j).n # 0 THEN data
    ELSE LET i == CHOOSE j \in from..(Len(data) - 1) :
                      /\ At(data, j).n = 0
                      /\ \A k \in from..(j - 1) : At(data, k).n # 0
             new == IF i = 0
                    THEN _find_mock_value(At(data, i + 1), avg, peak_min_value)
                    ELSE IF i = Len(data) - 1
                    THEN _find_mock_value(At(data, i - 1), avg, peak_min_value)
                    ELSE LET next_v == _find_mock_value(At(data, i + 1), avg, peak_min_value)
                             prev_v == _find_mock_value(At(data, i - 1), avg, peak_min_value)
                         IN  NumHalf(NumAdd(prev_v, next_v))
         IN  SpeculateLoop([data EXCEPT ![i + 1] = new], i + 1, avg, peak_min_value)

\* variant without upper limit on the number of zeros
HasMissingValues_any(nb_zero) == 0 < nb_zero

\* 0 < self.data.count(0) < MAX_NB_ZERO_TO_RM
HasMissingValues(nb_zero) == 0 < nb_zero /\ nb_zero < MAX_NB_ZERO_TO_RM

\* [status, data]: the list after the call, or ZeroDivisionError when the
\* average of an all zero list is taken
speculate_missing_values(data, peak_min_value) ==
    LET nb_zero == Cardinality({k \in DOMAIN data : data[k].n = 0})
        data_with_no_zero == SelectSeq(data, LAMBDA elt : elt.n # 0)
    IN  IF ~HasMissingValues(nb_zero)
        THEN [status |-> "ok", data |-> data]
        ELSE IF data_with_no_zero = <<>>
        THEN [status |-> "ZeroDivisionError", data |-> data]
        ELSE LET total == NumSum(data_with_no_zero)
                 avg == Num(total.n, total.d * Len(data_with_no_zero), TRUE)
             IN  [status |-> "ok", data |-> SpeculateLoop(data, 0, avg, peak_min_value)]

(***************************************************************************)
(* Bounds and input sets of the detector                                   *)
(***************************************************************************)
NumAS == 2
ASNS == 1..NumAS

\* a flat series of 5s with the values of shape at the indexes of its domain
Spiky(len, shape) == [i \in 1..len |-> IF (i - 1) \in DOMAIN shape THEN shape[i - 1] ELSE 5]

\* one spike at index 2; two spikes at indexes 9 and 16, the second one
\* rising by 25 only
Shapes == {(2 :> 25), (9 :> 50 @@ 15 :> 25 @@ 16 :> 50 @@ 17 :> 25)}

Stores(len) == UNION {[D -> {Spiky(len, sh) : sh \in Shapes}] : D \in SUBSET ASNS}

\* a day without data (0) between a value of 9 and a rise to 16; the same
\* rise with the data of that day
GapShapes == {(0 :> 9 @@ 1 :> 0 @@ 2 :> 16), (0 :> 9 @@ 1 :> 7 @@ 2 :> 16)}

\* stores of series of MIN_NB_DAYS values with or without a missing value
GapStores == UNION {[D -> {Spiky(MIN_NB_DAYS, sh) : sh \in GapShapes}] : D \in SUBSET ASNS}

\* two spikes of the same height, the second one rising by 25 only; one
\* spike at the index of the first of them
TwinShapes == {(9 :> 50 @@ 15 :> 25 @@ 16 :> 50 @@ 17 :> 25), (9 :> 50)}

\* stores of series of MIN_NB_DAYS values with one or two spikes
TwinStores == UNION {[D -> {Spiky(MIN_NB_DAYS, sh) : sh \in TwinShapes}] : D \in SUBSET ASNS}

\* <<length of the prefixes series, length of the conflicts series>>
LenPairs == {<<MIN_NB_DAYS - 1, MIN_NB_DAYS - 1>>, <<MIN_NB_DAYS, MIN_NB_DAYS>>,
             <<MIN_NB_DAYS, MIN_NB_DAYS - 1>>}

PfxStartDates == {None, <<2015, 1, 25>>}
CflStartDates == {None, <<2015, 1, 25>>, <<2015, 1, 26>>}

DefaultParams == [pfx_peak_min_value |-> 10, cfl_peak_min_value |-> 5, max_nb_peaks |-> 2,
                  percent_similarity |-> 9, percent_std |-> 9]

\* the keyword arguments get_route_leaks is called with
KwargsSet == {EmptyDict}
             \cup {("pfx_peak_min_value" :> v) : v \in {30}}
             \cup {("max_nb_peaks" :> v) : v \in {1}}
             \cup {("fake_parameter" :> 1)}

NoCall == [status |-> "none", kwargs |-> EmptyDict]

\* ParamValue.neutral_params, the percentages in tenths
neutral_params == [cfl_peak_min_value |-> 0, pfx_peak_min_value |-> 0, percent_std |-> 20,
                   percent_similarity |-> 0, max_nb_peaks |-> 400]

\* ParamValue.lr_points: of the list of each parameter, nb points evenly
\* spread from the first one on; the percentages in tenths
LrPoints(nb) ==
    [name \in ParamNames |->
        [i \in 1..nb |->
            IF name \in {"cfl_peak_min_value", "pfx_peak_min_value"}
            THEN (i - 1) * (50 \div nb)
            ELSE IF name = "max_nb_peaks" THEN 1 + (i - 1) * (50 \div nb)
            ELSE 1 + (i - 1) * (10 \div nb)]]

\* the points calc_nb_leaks runs the detection for
MaxGrid == 3
lr_points == LrPoints(MaxGrid)

\* the parameter settings of the calls of ParamValue.calc_nb_leaks
SweepParams == {neutral_params}
               \cup {[neutral_params EXCEPT ![name] = lr_points[name][i]] :
                        name \in ParamNames, i \in 1..MaxGrid}

\* every series of the input stores and every FindPeaks parameter setting the
\* calls can reach; get_big_maxes is evaluated once for each of them
PoolSeries == {Spiky(lens[k], sh) : lens \in LenPairs, k \in {1, 2}, sh \in Shapes}
              \cup {Spiky(MIN_NB_DAYS, sh) : sh \in GapShapes \cup TwinShapes}
PoolMinValues == {DefaultParams["pfx_peak_min_value"], DefaultParams["cfl_peak_min_value"]}
                 \cup {kw["pfx_peak_min_value"] :
                          kw \in {k \in KwargsSet : "pfx_peak_min_value" \in DOMAIN k}}
PoolMaxNbPeaks == {DefaultParams["max_nb_peaks"]}
                  \cup {kw["max_nb_peaks"] : kw \in {k \in KwargsSet : "max_nb_peaks" \in DOMAIN k}}
PoolPeakParams ==
    {[peak_min_value |-> v, max_nb_peaks |-> n,
      percent_sim |-> DefaultParams["percent_similarity"],
      percent_std |-> DefaultParams["percent_std"]] : v \in PoolMinValues, n \in PoolMaxNbPeaks}
    \cup {PeakParams(prms, name) :
            prms \in SweepParams, name \in {"pfx_peak_min_value", "cfl_peak_min_value"}}

\* the least common multiple of the denominators of a list of numbers
RECURSIVE DenLCM(_)
DenLCM(s) ==
    IF s = <<>> THEN 1
    ELSE IF Len(s) = 1 THEN s[1].d
    ELSE LET h == Len(s) \div 2
             a == DenLCM(SubSeq(s, 1, h))
             b == DenLCM(SubSeq(s, h + 1, Len(s)))
         IN  (a * b) \div GCD(a, b)

\* FindPeaks(data, p) with the call of speculate_missing_values at the end of
\* the constructor: max_value is the one of the list as given, get_big_maxes
\* runs on the smoothed list, here written in units of 1 / scale
FindPeaks_smoothed(series, prms) ==
    LET given == SubSeq([day \in DOMAIN series |-> IntNum(series[day])], 1, Len(series))
        res == speculate_missing_values(given, prms.peak_min_value)
        scale == DenLCM(res.data)
        smooth == [nth \in DOMAIN series |->
                      res.data[nth].n * (scale \div res.data[nth].d)]
    IN  [max_value |-> MaxSeq(series),
         big_maxes |-> get_big_maxes(SubSeq(smooth, 1, Len(series)),
                                     [prms EXCEPT !.peak_min_value = @ * scale])]

\* variant with the smoothing call of the constructor
FindPeaksOf_smoothed == [data \in PoolSeries, p \in PoolPeakParams |->
                           FindPeaks_smoothed(data, p)]

\* FindPeaks(data, p): max_value and the list get_big_maxes() returns
FindPeaksOf == [data \in PoolSeries, p \in PoolPeakParams |->
                  [max_value |-> MaxSeq(data), big_maxes |-> get_big_maxes(data, p)]]

_get_ases_with_peak(plotable_dict, p) ==
    LET with_peak == {asn \in DOMAIN plotable_dict :
                        /\ FindPeaksOf[plotable_dict[asn], p].max_value >= p.peak_min_value
                        /\ FindPeaksOf[plotable_dict[asn], p].big_maxes # <<>>}
    IN  [asn \in with_peak |-> FindPeaksOf[plotable_dict[asn], p].big_maxes]

\* variant comparing the start dates only when both files have one
StartsDiffer_dated(pfx_start, cfl_start) ==
    pfx_start # None /\ cfl_start # None /\ pfx_start # cfl_start

\* loader_pfx.start != loader_cfl.start
StartsDiffer(pfx_start, cfl_start) == pfx_start # cfl_start

\* variant with the limit one day lower
TooFewData_lower(series) == Len(series) < MIN_NB_DAYS - 1

\* the guard of get_route_leaks on the first series of the prefixes
TooFewData(series) == Len(series) < MIN_NB_DAYS

DetIdle ==
    /\ pc = "off"
    /\ pfx_file = [start_date |-> None, data |-> EmptyDict]
    /\ cfl_file = [start_date |-> None, data |-> EmptyDict]
    /\ pfx_data = EmptyDict /\ cfl_data = EmptyDict
    /\ params = DefaultParams /\ start = None
    /\ pfx_unique_data = EmptyDict /\ cfl_unique_data = EmptyDict
    /\ pfx_dupl_ases = EmptyDict /\ cfl_dupl_ases = EmptyDict
    /\ pfx_peaks = EmptyDict /\ cfl_peaks = EmptyDict
    /\ route_leaks = EmptyDict /\ call = NoCall

DetInit ==
    /\ pc = "new"
    /\ \E lens \in LenPairs :
        /\ pfx_file \in [start_date : PfxStartDates, data : Stores(lens[1])]
        /\ cfl_file \in [start_date : CflStartDates, data : Stores(lens[2])]
    /\ pfx_data = EmptyDict /\ cfl_data = EmptyDict
    /\ params = DefaultParams /\ start = None
    /\ pfx_unique_data = EmptyDict /\ cfl_unique_data = EmptyDict
    /\ pfx_dupl_ases = EmptyDict /\ cfl_dupl_ases = EmptyDict
    /\ pfx_peaks = EmptyDict /\ cfl_peaks = EmptyDict
    /\ route_leaks = EmptyDict /\ call = NoCall

\* files of MIN_NB_DAYS days where a day may have no data
GapInit ==
    /\ pc = "new"
    /\ pfx_file \in [start_date : {None}, data : GapStores]
    /\ cfl_file \in [start_date : {None}, data : GapStores]
    /\ pfx_data = EmptyDict /\ cfl_data = EmptyDict
    /\ params = DefaultParams /\ start = None
    /\ pfx_unique_data = EmptyDict /\ cfl_unique_data = EmptyDict
    /\ pfx_dupl_ases = EmptyDict /\ cfl_dupl_ases = EmptyDict
    /\ pfx_peaks = EmptyDict /\ cfl_peaks = EmptyDict
    /\ route_leaks = EmptyDict /\ call = NoCall

\* files of MIN_NB_DAYS days with one or two spikes
TwinInit ==
    /\ pc = "new"
    /\ pfx_file \in [start_date : {None}, data : TwinStores]
    /\ cfl_file \in [start_date : {None}, data : TwinStores]
    /\ pfx_data = EmptyDict /\ cfl_data = EmptyDict
    /\ params = DefaultParams /\ start = None
    /\ pfx_unique_data = EmptyDict /\ cfl_unique_data = EmptyDict
    /\ pfx_dupl_ases = EmptyDict /\ cfl_dupl_ases = EmptyDict
    /\ pfx_peaks = EmptyDict /\ cfl_peaks = EmptyDict
    /\ route_leaks = EmptyDict /\ call = NoCall

(***************************************************************************)
(* FindRouteLeaks(pfx_file, cfl_file): _BaseFindRouteLeaks.__init__ then    *)
(* _PyFindRouteLeaks.__init__, with the default parameters and no          *)
(* start_date argument                                                     *)
(***************************************************************************)
Construct ==
    /\ pc = "new"
    /\ IF StartsDiffer(pfx_file.start_date, cfl_file.start_date)
       THEN /\ pc' = "ValueError"
            /\ UNCHANGED <<pfx_data, cfl_data, params, start, pfx_unique_data,
                           cfl_unique_data, pfx_dupl_ases, cfl_dupl_ases>>
       ELSE /\ pc' = "ready"
            /\ params' = DefaultParams
            /\ pfx_data' = pfx_file.data
            /\ cfl_data' = cfl_file.data
            /\ start' = pfx_file.start_date
            /\ \E porder \in Perms(DOMAIN pfx_file.data), corder \in Perms(DOMAIN cfl_file.data) :
                LET pf == _fill_duplicates_struct(porder, pfx_file.data)
                    cf == _fill_duplicates_struct(corder, cfl_file.data)
                IN  /\ pfx_unique_data' = pf.data
                    /\ pfx_dupl_ases' = pf.dupl_ases
                    /\ cfl_unique_data' = cf.data
                    /\ cfl_dupl_ases' = cf.dupl_ases
    /\ UNCHANGED <<pfx_file, cfl_file, pfx_peaks, cfl_peaks, route_leaks, call>>
    /\ UNCHANGED <<fp_vars, clf_vars, ext_vars>>

(***************************************************************************)
(* _PyFindRouteLeaks.get_route_leaks with keyword arguments                 *)
(***************************************************************************)
get_route_leaks(kwargs) ==
    /\ pc = "ready"
    /\ IF pfx_data = EmptyDict
       THEN \* self.pfx_data.values()[0] raises IndexError
            /\ call' = [status |-> "IndexError", kwargs |-> kwargs]
            /\ UNCHANGED <<params, pfx_peaks, cfl_peaks, route_leaks>>
       ELSE \E first \in DOMAIN pfx_data :
            IF TooFewData(pfx_data[first])
            THEN /\ call' = [status |-> "returned", kwargs |-> kwargs]
                 /\ route_leaks' = EmptyDict
                 /\ UNCHANGED <<params, pfx_peaks, cfl_peaks>>
            ELSE /\ params' = ApplyKwargs(params, kwargs)
                 /\ pfx_peaks' = PutBack(_get_ases_with_peak(pfx_unique_data,
                                            PeakParams(params', "pfx_peak_min_value")),
                                        pfx_dupl_ases)
                 /\ cfl_peaks' = PutBack(_get_ases_with_peak(cfl_unique_data,
                                            PeakParams(params', "cfl_peak_min_value")),
                                        cfl_dupl_ases)
                 /\ \E leaks \in LeakLists(LeakSets(pfx_peaks', cfl_peaks')) :
                        IF DOMAIN leaks \subseteq DOMAIN pfx_data \cap DOMAIN cfl_data
                        THEN /\ route_leaks' =
                                    [a \in DOMAIN leaks |->
                                        [leaks |-> _map_leaks_indexes(start, leaks[a]),
                                         pfx_data |-> pfx_data[a],
                                         cfl_data |-> cfl_data[a]]]
                             /\ call' = [status |-> "returned", kwargs |-> kwargs]
                        ELSE \* self.pfx_data[asn] or self.cfl_data[asn] raises KeyError
                             /\ call' = [status |-> "KeyError", kwargs |-> kwargs]
                             /\ UNCHANGED route_leaks
    /\ UNCHANGED <<pc, pfx_file, cfl_file, pfx_data, cfl_data, start, pfx_unique_data,
                   cfl_unique_data, pfx_dupl_ases, cfl_dupl_ases>>
    /\ UNCHANGED <<fp_vars, clf_vars, ext_vars>>

GetRouteLeaks == \E kwargs \in KwargsSet : get_route_leaks(kwargs)

(***************************************************************************)
(* FindPeaks(data, peak_min_value) followed by calls of                    *)
(* speculate_missing_values                                                *)
(***************************************************************************)
MaxSmLen == 6
MaxSmCalls == 2
SmValues == {0, 5, 6, 24}
SmSeries == UNION {[1..n -> {IntNum(v) : v \in SmValues}] : n \in 1..MaxSmLen}
SmMinValues == {10, 11, 12}

SmIdle ==
    /\ sm_pc = "off" /\ sm_input = <<>> /\ sm_data = <<>>
    /\ sm_peak_min_value = 0 /\ sm_calls = 0

SmInit ==
    /\ sm_pc = "ready" /\ sm_input \in SmSeries /\ sm_data = sm_input
    /\ sm_peak_min_value \in SmMinValues /\ sm_calls = 0

FindPeaks_speculate_missing_values ==
    /\ sm_pc \in {"ready", "done"}
    /\ sm_calls < MaxSmCalls
    /\ LET res == speculate_missing_values(sm_data, sm_peak_min_value)
       IN  /\ sm_data' = res.data
           /\ sm_pc' = IF res.status = "ok" THEN "done" ELSE res.status
    /\ sm_calls' = sm_calls + 1
    /\ UNCHANGED <<sm_input, sm_peak_min_value>>


(***************************************************************************)
(* CreateClassifBaseData                                                   *)
(***************************************************************************)
MaxRawLen == 4
RawValues == {0, 5, 24}
RawSeries == UNION {[1..n -> {IntNum(v) : v \in RawValues}] : n \in 1..MaxRawLen}
RawStores == {EmptyDict} \cup {(asn :> series) : asn \in ASNS, series \in RawSeries}

ClfIdle ==
    /\ clf_pc = "off" /\ raw_file = EmptyDict
    /\ raw_loaded_data = None /\ var_data = EmptyDict

ClfInit ==
    /\ clf_pc = "new" /\ raw_file \in RawStores
    /\ raw_loaded_data = None /\ var_data = EmptyDict

\* variant smoothing a copy of each series
InputLoop_copy(order, loaded) ==
    [status |-> IF \A a \in Range(order) : speculate_missing_values(loaded[a], 10).status = "ok"
                THEN "loaded" ELSE "ZeroDivisionError",
     data |-> loaded]

\* the loop of get_input_data over the ASes taken in some order: stops at
\* the first series whose smoothing raises
RECURSIVE InputLoop(_, _)
InputLoop(order, loaded) ==
    IF order = <<>> THEN [status |-> "loaded", data |-> loaded]
    ELSE LET asn == Head(order)
             res == speculate_missing_values(loaded[asn], 10)
         IN  IF res.status # "ok" THEN [status |-> res.status, data |-> loaded]
             ELSE InputLoop(Tail(order), [loaded EXCEPT ![asn] = res.data])

\* CreateClassifBaseData.get_input_data
get_input_data ==
    /\ clf_pc = "new"
    /\ \E order \in Perms(DOMAIN raw_file) :
        LET res == InputLoop(order, raw_file)
        IN  /\ raw_loaded_data' = res.data
            /\ clf_pc' = res.status
    /\ UNCHANGED <<raw_file, var_data>>
    /\ UNCHANGED <<fp_vars, det_vars, ext_vars>>

\* CreateClassifBaseData.create_var_input, called as create_normalized_var_input
\* calls it (var_data still empty) once the data are loaded
create_var_input ==
    /\ clf_pc = "loaded"
    /\ var_data = EmptyDict
    /\ raw_loaded_data # EmptyDict
    /\ var_data' = [asn \in {a \in DOMAIN raw_loaded_data : Len(raw_loaded_data[a]) > 1} |->
                      [i \in 1..(Len(raw_loaded_data[asn]) - 1) |->
                          NumSub(raw_loaded_data[asn][i + 1], raw_loaded_data[asn][i])]]
    /\ UNCHANGED <<clf_pc, raw_file, raw_loaded_data>>
    /\ UNCHANGED <<fp_vars, det_vars, ext_vars>>

(***************************************************************************)
(* AttributeMakers: the functions load_makers decorates, in the order of   *)
(* the source, with the keys they are registered under and the number of   *)
(* attributes each returns                                                 *)
(***************************************************************************)
Makers == <<
    [name |-> "corr_max_next",            args |-> <<"unilat">>,          nb |-> 1],
    [name |-> "corr_nb_maxes",            args |-> <<"unilat">>,          nb |-> 1],
    [name |-> "corr_max_value",           args |-> <<"unilat">>,          nb |-> 1],
    [name |-> "max_var",                  args |-> <<"bilat">>,           nb |-> 1],
    [name |-> "next_var",                 args |-> <<"bilat">>,           nb |-> 1],
    [name |-> "max_other_var",            args |-> <<"bilat">>,           nb |-> 1],
    [name |-> "next_other_var",           args |-> <<"bilat">>,           nb |-> 1],
    [name |-> "nb_maxes",                 args |-> <<"bilat">>,           nb |-> 1],
    [name |-> "std_ratio",                args |-> <<"bilat", "unilat">>, nb |-> 1],
    [name |-> "other_std_ratio",          args |-> <<"bilat">>,           nb |-> 1],
    [name |-> "last_decile_attributes",   args |-> <<"bilat", "unilat">>, nb |-> 2],
    [name |-> "last_quartile_attributes", args |-> <<"bilat", "unilat">>, nb |-> 2],
    [name |-> "percent_above_average",    args |-> <<"bilat", "unilat">>, nb |-> 1],
    [name |-> "var_of_max",               args |-> <<"bilat">>,           nb |-> 1] >>

\* the class attributes attribute_makers and _makers_names before any
\* registration
NoMakers == [attribute_makers |-> [bilat |-> <<>>, unilat |-> <<>>], _makers_names |-> <<>>]

\* variant taking no function as registered
is_registered_never(reg, func) == FALSE

\* the test of register_decorator(func): the function, known by its name, is
\* in _makers_names
is_registered(reg, func) == func.name \in Range(reg._makers_names)

\* load_makers: each decorated definition is appended to _makers_names and to
\* the lists of its register_attr arguments unless it is registered; their
\* names being distinct, it is registered when its turn comes if and only if
\* it was when load_makers was called. A function is written as its name.
load_makers(reg) ==
    LET names(funcs) == [k \in DOMAIN funcs |-> funcs[k].name]
        added == SelectSeq(Makers, LAMBDA func : ~is_registered(reg, func))
    IN  [attribute_makers |->
            [arg \in {"bilat", "unilat"} |->
                reg.attribute_makers[arg]
                    \o names(SelectSeq(added, LAMBDA func : arg \in Range(func.args)))],
         _makers_names |-> reg._makers_names \o names(added)]

\* the attributes a registered function yields for series_name, each
\* written <<function, series_name, rank in the returned tuple>>
MakerAttrs(name, series_name) ==
    LET func == CHOOSE m \in Range(Makers) : m.name = name
    IN  [k \in 1..func.nb |-> <<name, series_name, k>>]

RECURSIVE AttrsOf(_, _)
AttrsOf(funcs, series_name) ==
    IF funcs = <<>> THEN <<>>
    ELSE MakerAttrs(Head(funcs), series_name) \o AttrsOf(Tail(funcs), series_name)

\* create_attributes: [reg, attrs], the registry after its load_makers
\* call and the list of the attributes yielded
create_attributes(reg) ==
    LET loaded == load_makers(reg)
    IN  [reg |-> loaded,
         attrs |-> AttrsOf(loaded.attribute_makers["bilat"], "prefixes")
                   \o AttrsOf(loaded.attribute_makers["bilat"], "conflicts")
                   \o AttrsOf(loaded.attribute_makers["unilat"], "corr")]

(***************************************************************************)
(* CreateClassificationAttributes on the content of a prefixes file and of *)
(* a conflicts file                                                        *)
(***************************************************************************)
\* a / b for b > 0, as a float
NumDiv(a, b) == Num(a.n * b.d, a.d * b.n, TRUE)
NumAbs(a) == [a EXCEPT !.n = Abs(a.n)]
NumLess(a, b) == a.n * b.d < b.n * a.d

\* var_data of create_var_input for the loaded data
VarOf(loaded) ==
    [asn \in {a \in DOMAIN loaded : Len(loaded[a]) > 1} |->
        [i \in 1..(Len(loaded[asn]) - 1) |-> NumSub(loaded[asn][i + 1], loaded[asn][i])]]

\* normalized_var_data of create_normalized_var_input for the variations
NormVarOf(var) ==
    [asn \in DOMAIN var |->
        LET abs_var == [i \in DOMAIN var[asn] |-> NumAbs(var[asn][i])]
            max_value == abs_var[CHOOSE i \in DOMAIN abs_var :
                                    \A j \in DOMAIN abs_var : ~NumLess(abs_var[i], abs_var[j])]
        IN  IF max_value.n # 0
            THEN [i \in DOMAIN var[asn] |-> NumDiv(var[asn][i], max_value)]
            ELSE [i \in DOMAIN var[asn] |-> IntNum(0)]]

\* np.std(values) == 0: the values are all the same (nan for no value)
StdIsZero(values) ==
    /\ values # <<>>
    /\ \A i, j \in DOMAIN values : values[i].n * values[j].d = values[j].n * values[i].d

\* a key of a defaultdict(list)
GetDefault(dict, key) == IF key \in DOMAIN dict THEN dict[key] ELSE <<>>

\* variant which does not look at the conflicts
is_to_skip_pfx(asn, pfx_norm, cfl_loaded, cfl_norm) ==
    \/ asn \notin DOMAIN cfl_loaded
    \/ StdIsZero(GetDefault(pfx_norm, asn))

is_to_skip(asn, pfx_norm, cfl_loaded, cfl_norm) ==
    \/ asn \notin DOMAIN cfl_loaded
    \/ StdIsZero(GetDefault(pfx_norm, asn))
    \/ StdIsZero(GetDefault(cfl_norm, asn))

\* the loop of create_svm_input over the ASes taken in some order:
\* max_attr_values[i] raises IndexError past nb_max_attr attributes
RECURSIVE SvmInputLoop(_, _, _, _, _)
SvmInputLoop(order, reg, svm_input, skip, nb_max_attr) ==
    IF order = <<>> THEN [status |-> "ok", reg |-> reg, svm_input |-> svm_input]
    ELSE LET asn == Head(order)
         IN  IF asn \in skip
             THEN SvmInputLoop(Tail(order), reg, svm_input, skip, nb_max_attr)
             ELSE LET made == create_attributes(reg)
                  IN  IF Len(made.attrs) > nb_max_attr
                      THEN [status |-> "IndexError", reg |-> made.reg, svm_input |-> svm_input]
                      ELSE SvmInputLoop(Tail(order), made.reg,
                                        (asn :> made.attrs) @@ svm_input, skip, nb_max_attr)

\* create_svm_input on fresh CreateClassifBaseData objects: the registry
\* after the call, the loaded and normalized data and the svm input; order
\* is the order in which the dictionaries give the ASes they hold
create_svm_input(reg, pfx_content, cfl_content, order) ==
    LET pfx_in == InputLoop(SelectSeq(order, LAMBDA a : a \in DOMAIN pfx_content), pfx_content)
        cfl_in == InputLoop(SelectSeq(order, LAMBDA a : a \in DOMAIN cfl_content), cfl_content)
        pfx_norm == NormVarOf(VarOf(pfx_in.data))
        cfl_norm == NormVarOf(VarOf(cfl_in.data))
        loaded == load_makers(reg)
        nb_max_attr == 2 * (2 * Len(loaded.attribute_makers["bilat"])
                               + Len(loaded.attribute_makers["unilat"]))
        skip == {asn \in DOMAIN pfx_norm : is_to_skip(asn, pfx_norm, cfl_in.data, cfl_norm)}
        looped == SvmInputLoop(SelectSeq(order, LAMBDA a : a \in DOMAIN pfx_norm),
                               loaded, EmptyDict, skip, nb_max_attr)
        failed(status) == [status |-> status, reg |-> reg, svm_input |-> EmptyDict,
                           pfx_loaded |-> pfx_in.data, cfl_loaded |-> cfl_content,
                           pfx_norm |-> EmptyDict, cfl_norm |-> EmptyDict]
    IN  IF pfx_in.status # "loaded" THEN failed(pfx_in.status)
        ELSE IF cfl_in.status # "loaded"
        THEN [failed(cfl_in.status) EXCEPT !.cfl_loaded = cfl_in.data]
        ELSE [status |-> looped.status, reg |-> looped.reg, svm_input |-> looped.svm_input,
              pfx_loaded |-> pfx_in.data, cfl_loaded |-> cfl_in.data,
              pfx_norm |-> pfx_norm, cfl_norm |-> cfl_norm]

(***************************************************************************)
(* ApplyModel                                                              *)
(***************************************************************************)
MaxClassifCalls == 2
ClassifSeries == {<<IntNum(5), IntNum(9), IntNum(5)>>, <<IntNum(5), IntNum(0), IntNum(5)>>,
                  <<IntNum(5), IntNum(6), IntNum(7)>>}
ClassifStores == UNION {[D -> ClassifSeries] : D \in SUBSET ASNS}

NoAttr == [status |-> "none", reg |-> NoMakers, svm_input |-> EmptyDict,
           pfx_loaded |-> EmptyDict, cfl_loaded |-> EmptyDict,
           pfx_norm |-> EmptyDict, cfl_norm |-> EmptyDict]

ApIdle ==
    /\ ap_pc = "off"
    /\ ap_model_files = [svm_file |-> FALSE, svm_input_file |-> FALSE]
    /\ ap_paths = <<>> /\ am_class = NoMakers
    /\ ap_pfx_file = EmptyDict /\ ap_cfl_file = EmptyDict
    /\ ap_attr = NoAttr /\ ap_result = None
    /\ ap_call = [status |-> "none", nb |-> 0]

ApInit ==
    /\ ap_pc = "new"
    /\ ap_model_files \in [svm_file : BOOLEAN, svm_input_file : BOOLEAN]
    /\ ap_paths = <<>> /\ am_class = NoMakers
    /\ ap_pfx_file \in ClassifStores /\ ap_cfl_file \in ClassifStores
    /\ ap_attr = NoAttr /\ ap_result = None
    /\ ap_call = [status |-> "none", nb |-> 0]


\* variant trying the svm input file first
LoadPath_input_first(has_svm_file, has_svm_input_file) ==
    IF has_svm_input_file THEN "_fast_get_model_svm_classifier"
    ELSE IF has_svm_file THEN "_very_fast_get_model_svm_classifier"
    ELSE "_get_model_svm_classifier"

\* the method get_model_svm_classifier calls
LoadPath(has_svm_file, has_svm_input_file) ==
    IF has_svm_file THEN "_very_fast_get_model_svm_classifier"
    ELSE IF has_svm_input_file THEN "_fast_get_model_svm_classifier"
    ELSE "_get_model_svm_classifier"

\* ApplyModel.get_model_svm_classifier; _get_model_svm_classifier runs
\* create_svm_input on the model data, which loads the makers
get_model_svm_classifier ==
    /\ ap_pc = "new"
    /\ LET path == LoadPath(ap_model_files.svm_file, ap_model_files.svm_input_file)
       IN  /\ ap_paths' = Append(ap_paths, path)
           /\ am_class' = IF path = "_get_model_svm_classifier"
                        THEN create_attributes(load_makers(am_class)).reg
                        ELSE am_class
    /\ ap_pc' = "ready"
    /\ UNCHANGED <<ap_model_files, ap_pfx_file, ap_cfl_file, ap_attr, ap_result, ap_call>>

\* ApplyModel.get_classification_result(pfx_file, cfl_file)
get_classification_result ==
    /\ ap_pc \in {"new", "ready"}
    /\ ap_call.nb < MaxClassifCalls
    /\ \E order \in Perms(ASNS) :
        /\ ap_attr' = create_svm_input(am_class, ap_pfx_file, ap_cfl_file, order)
        /\ am_class' = ap_attr'.reg
        /\ LET made == ap_attr'
           IN  IF made.status # "ok"
               THEN /\ ap_call' = [status |-> made.status, nb |-> ap_call.nb + 1]
                    /\ UNCHANGED ap_result
               ELSE IF made.svm_input = EmptyDict
               THEN /\ ap_call' = [status |-> "returned", nb |-> ap_call.nb + 1]
                    /\ ap_result' = ("PEAK" :> EmptyDict)
               ELSE IF ap_pc = "new"
               THEN \* self.clf raises
                    /\ ap_call' = [status |-> "NotImplementedError", nb |-> ap_call.nb + 1]
                    /\ UNCHANGED ap_result
               ELSE \E res \in [DOMAIN made.svm_input -> {"PEAK", "NORMAL"}] :
                    /\ ap_call' = [status |-> "returned", nb |-> ap_call.nb + 1]
                    /\ ap_result' =
                          [label \in {res[a] : a \in DOMAIN res} |->
                              [asn \in {a \in DOMAIN res : res[a] = label} |->
                                  [prefixes |-> made.pfx_loaded[asn],
                                   conflicts |-> made.cfl_loaded[asn]]]]
    /\ UNCHANGED <<ap_pc, ap_model_files, ap_paths, ap_pfx_file, ap_cfl_file>>

(***************************************************************************)
(* ParamValue: calc_nb_leaks and its multiprocessing Pool                  *)
(***************************************************************************)
\* cpu_count() / 2 or 1
NumWorkers == 2
Workers == 1..NumWorkers

NoFinder == [pfx_data |-> EmptyDict, cfl_data |-> EmptyDict,
             pfx_unique_data |-> EmptyDict, cfl_unique_data |-> EmptyDict,
             pfx_dupl_ases |-> EmptyDict, cfl_dupl_ases |-> EmptyDict]

SwIdle ==
    /\ sw_pc = "off" /\ sw_name = "" /\ sw_finder = NoFinder
    /\ sw_params = DefaultParams /\ sw_next = 0
    /\ sw_workers = <<>> /\ sw_outqueue = <<>> /\ sw_nb_leaks = <<>>

\* ParamValue.leaks_finder = FindRouteLeaks(pfx_data, cfl_data), on stores
\* of series of MIN_NB_DAYS values holding every AS
SwInit ==
    /\ sw_pc = "new"
    /\ sw_name \in ParamNames \cup {"fake_parameter"}
    /\ \E pfx \in [ASNS -> {Spiky(MIN_NB_DAYS, sh) : sh \in Shapes}],
          cfl \in [ASNS -> {Spiky(MIN_NB_DAYS, sh) : sh \in Shapes}],
          order \in Perms(ASNS) :
        LET pf == _fill_duplicates_struct(order, pfx)
            cf == _fill_duplicates_struct(order, cfl)
        IN  sw_finder = [pfx_data |-> pfx, cfl_data |-> cfl,
                         pfx_unique_data |-> pf.data, cfl_unique_data |-> cf.data,
                         pfx_dupl_ases |-> pf.dupl_ases, cfl_dupl_ases |-> cf.dupl_ases]
    /\ sw_params = DefaultParams /\ sw_next = 0
    /\ sw_workers = <<>> /\ sw_outqueue = <<>> /\ sw_nb_leaks = <<>>

\* selective_index of _ParamPfxMinValue, _ParamCflMinValue, _ParamSimToMax,
\* _ParamNbBigger and _ParamStd
selective_index == [pfx_peak_min_value |-> 1, cfl_peak_min_value |-> 1,
                    percent_similarity |-> 1, max_nb_peaks |-> 0, percent_std |-> 0]

\* variant taking any name
HasSubclass_any(param_name) == TRUE

\* some subclass of ParamValue has param_name as its _param_name
HasSubclass(param_name) == param_name \in DOMAIN selective_index

\* a ParamValue about to be built, ParamValue.leaks_finder not being set
SwNew ==
    /\ sw_pc = "new"
    /\ sw_name \in ParamNames \cup {"fake_parameter"}
    /\ sw_finder = NoFinder
    /\ sw_params = DefaultParams /\ sw_next = 0
    /\ sw_workers = <<>> /\ sw_outqueue = <<>> /\ sw_nb_leaks = <<>>

\* ParamValue(param_name): __new__ then __init__
ParamValue_new ==
    /\ sw_pc = "new"
    /\ sw_pc' = IF HasSubclass(sw_name) THEN "built" ELSE "ValueError"
    /\ sw_nb_leaks' = <<>>
    /\ UNCHANGED <<sw_name, sw_finder, sw_params, sw_next, sw_workers, sw_outqueue>>

\* calc_nb_leaks up to the creation of the pool: the workers are forked
\* with the parameters of the finder as they are then
calc_nb_leaks ==
    /\ sw_pc = "built"
    /\ sw_nb_leaks' = [i \in 1..Len(lr_points[sw_name]) |-> 0]
    /\ sw_params' = neutral_params
    /\ sw_workers' = [w \in Workers |-> [params |-> sw_params', task |-> 0]]
    /\ sw_next' = 0 /\ sw_outqueue' = <<>>
    /\ sw_pc' = "pool"
    /\ UNCHANGED <<sw_name, sw_finder>>

\* a free worker takes the next task ({param_name: v}, i) of the pool
TakeTask(w) ==
    /\ sw_pc = "pool"
    /\ sw_workers[w].task = 0
    /\ sw_next < Len(lr_points[sw_name])
    /\ sw_next' = sw_next + 1
    /\ sw_workers' = [sw_workers EXCEPT ![w].task = sw_next']
    /\ UNCHANGED <<sw_pc, sw_name, sw_finder, sw_params, sw_outqueue, sw_nb_leaks>>

\* len(get_route_leaks(**param)) on the finder of a worker whose parameters
\* are prms: [params, nb], the parameters after the call and the length
DetectLen(finder, prms, param) ==
    IF \E asn \in DOMAIN finder.pfx_data : TooFewData(finder.pfx_data[asn])
    THEN [params |-> prms, nb |-> 0]
    ELSE LET after == ApplyKwargs(prms, param)
             ppeaks == PutBack(_get_ases_with_peak(finder.pfx_unique_data,
                                   PeakParams(after, "pfx_peak_min_value")),
                               finder.pfx_dupl_ases)
             cpeaks == PutBack(_get_ases_with_peak(finder.cfl_unique_data,
                                   PeakParams(after, "cfl_peak_min_value")),
                               finder.cfl_dupl_ases)
         IN  [params |-> after, nb |-> Cardinality(DOMAIN LeakSets(ppeaks, cpeaks))]

\* _detect_wrapper(({param_name: v}, i)) run by worker w
_detect(w) ==
    /\ sw_pc = "pool"
    /\ sw_workers[w].task # 0
    /\ LET idx == sw_workers[w].task
           res == DetectLen(sw_finder, sw_workers[w].params,
                            (sw_name :> lr_points[sw_name][idx]))
       IN  /\ sw_workers' = [sw_workers EXCEPT ![w] = [params |-> res.params, task |-> 0]]
           /\ sw_outqueue' = Append(sw_outqueue, [idx |-> idx, nb |-> res.nb])
    /\ UNCHANGED <<sw_pc, sw_name, sw_finder, sw_params, sw_next, sw_nb_leaks>>

\* one turn of the loop over pool.imap_unordered; the pool is closed after
\* the last result
StoreResult ==
    /\ sw_pc = "pool"
    /\ sw_outqueue # <<>>
    /\ LET res == Head(sw_outqueue)
       IN  sw_nb_leaks' = [sw_nb_leaks EXCEPT ![res.idx] = res.nb]
    /\ sw_outqueue' = Tail(sw_outqueue)
    /\ sw_pc' = IF /\ sw_next = Len(lr_points[sw_name]) /\ sw_outqueue' = <<>>
                   /\ \A w \in Workers : sw_workers[w].task = 0
                THEN "done" ELSE "pool"
    /\ UNCHANGED <<sw_name, sw_finder, sw_params, sw_next, sw_workers>>

(***************************************************************************)
(* FittedFindRouteLeaks                                                    *)
(***************************************************************************)
\* the points of the fit
MaxFitGrid == 7
fit_points == LrPoints(MaxFitGrid)

\* variant with a first regression on two points or more
BreakIndexes_from_two(name) ==
    LET i0 == 1
        i3 == Len(fit_points[name])
    IN  {ii \in ((i0 + 1)..(i3 - 1)) \X ((i0 + 1)..(i3 - 1)) : ii[2] >= ii[1] + 2}

\* _get_3lr_res: the <<i1, i2>> the three linear regressions are scored for
BreakIndexes(name) ==
    LET i0 == 1
        i3 == Len(fit_points[name])
    IN  {ii \in ((i0 + 2)..(i3 - 1)) \X ((i0 + 2)..(i3 - 1)) : ii[2] >= ii[1] + 2}

\* get_param_optimized_values without its score: <<first breaking point
\* value, second breaking point value>> for the best case <<i1, i2>>
OptimizedValues(name, best_case) ==
    <<fit_points[name][best_case[1]], fit_points[name][best_case[2]]>>

\* variant following selective_index for every parameter
BestOf_selective(param, lr_res) == lr_res[selective_index[param] + 1]

\* the value get_best_param_value returns, lr_res written without its score
BestOf(param, lr_res) ==
    IF param = "percent_std" THEN lr_res[Len(lr_res)]
    ELSE lr_res[selective_index[param] + 1]

\* the values given for a parameter
SuppliedValues == {0, 3}

FtIdle ==
    /\ ft_pc = "off" /\ ft_supplied = EmptyDict /\ ft_lr_data = EmptyDict
    /\ ft_params = DefaultParams

\* FittedFindRouteLeaks(pfx_file, cfl_file, **params) once FindRouteLeaks is
\* instantiated
FtInit ==
    /\ ft_pc = "new"
    /\ \E given \in SUBSET (ParamNames \cup {"fake_parameter"}) :
        ft_supplied \in [given -> SuppliedValues]
    /\ ft_lr_data = EmptyDict
    /\ ft_params = DefaultParams

\* the loop of FittedFindRouteLeaks.__init__ over the five parameters, with
\* get_best_param_value for those which are not given
FittedFindRouteLeaks_init ==
    /\ ft_pc = "new"
    /\ LET fitted == {name \in ParamNames : name \notin DOMAIN ft_supplied}
       IN  \* the best case of each fit is any of the cases, the scores not
           \* being known
           \E best \in [fitted -> UNION {BreakIndexes(name) : name \in ParamNames}] :
               /\ \A name \in fitted : best[name] \in BreakIndexes(name)
               /\ ft_lr_data' = [name \in fitted |-> OptimizedValues(name, best[name])]
               /\ ft_params' = [name \in ParamNames |->
                                   IF name \in fitted THEN BestOf(name, ft_lr_data'[name])
                                   ELSE ft_supplied[name]]
    /\ ft_pc' = "ready"
    /\ UNCHANGED ft_supplied

(***************************************************************************)
(* ParamValue.get_param_optimized_values once calc_nb_leaks has filled     *)
(* nb_leaks: the scores of the linear regressions are exact rationals      *)
(***************************************************************************)
\* the numbers of leaks found for a point
LeakCounts == {0, 1, 2}

RECURSIVE SumProd(_, _)
SumProd(xs, ys) ==
    IF xs = <<>> THEN 0 ELSE Head(xs) * Head(ys) + SumProd(Tail(xs), Tail(ys))

\* LinearRegression().fit(x, y).score(x, y) on the points l_bound .. u_bound:
\* the coefficient of determination of the least squares line, 1 when the
\* numbers of leaks are all the same
_get_lr_score(name, nb_leaks, l_bound, u_bound) ==
    LET shape == u_bound - l_bound + 1
        lin_reg_pts == SubSeq(fit_points[name], l_bound, u_bound)
        nb_leaks_pts == SubSeq(nb_leaks, l_bound, u_bound)
        sxx == shape * SumSq(lin_reg_pts) - SumSeq(lin_reg_pts) * SumSeq(lin_reg_pts)
        syy == shape * SumSq(nb_leaks_pts) - SumSeq(nb_leaks_pts) * SumSeq(nb_leaks_pts)
        sxy == shape * SumProd(lin_reg_pts, nb_leaks_pts)
                   - SumSeq(lin_reg_pts) * SumSeq(nb_leaks_pts)
    IN  IF syy = 0 THEN Num(1, 1, TRUE) ELSE Num(sxy * sxy, sxx * syy, TRUE)

\* the list res of _get_3lr_res: [score, i1, i2] for i1 and i2 in the order
\* of the two loops
_get_3lr_res(name, nb_leaks) ==
    LET i0 == 1
        i3 == Len(fit_points[name])
        cases == BreakIndexes(name)
        before(a, b) == a[1] < b[1] \/ (a[1] = b[1] /\ a[2] < b[2])
        nth(k) == CHOOSE c \in cases : Cardinality({b \in cases : before(b, c)}) = k - 1
        score(c) ==
            LET score1 == _get_lr_score(name, nb_leaks, i0, c[1])
                score2 == _get_lr_score(name, nb_leaks, c[1], c[2])
                score3 == _get_lr_score(name, nb_leaks, c[2], i3)
                total == NumAdd(NumAdd(score1, score2), score3)
            IN  Num(total.n, 3 * total.d, TRUE)
    IN  [k \in 1..Cardinality(cases) |->
            [score |-> score(nth(k)), i1 |-> nth(k)[1], i2 |-> nth(k)[2]]]

\* max(res, key=lambda x: x[0]): the first of the cases of highest score
BestCase(res) ==
    res[CHOOSE k \in DOMAIN res :
            /\ \A j \in DOMAIN res : ~NumLess(res[k].score, res[j].score)
            /\ \A j \in 1..(k - 1) : NumLess(res[j].score, res[k].score)]

NoBest == [score |-> IntNum(0), first |-> 0, second |-> 0]

BpIdle ==
    /\ bp_pc = "off" /\ bp_name = "" /\ bp_nb_leaks = <<>>
    /\ bp_res = <<>> /\ bp_best = NoBest

\* a ParamValue object whose nb_leaks calc_nb_leaks has filled
BpInit ==
    /\ bp_pc = "counted" /\ bp_name \in ParamNames
    /\ bp_nb_leaks \in [1..MaxFitGrid -> LeakCounts]
    /\ bp_res = <<>> /\ bp_best = NoBest

\* get_param_optimized_values after calc_nb_leaks: max() raises ValueError on
\* an empty list
get_param_optimized_values ==
    /\ bp_pc = "counted"
    /\ bp_res' = _get_3lr_res(bp_name, bp_nb_leaks)
    /\ IF bp_res' = <<>>
       THEN bp_pc' = "ValueError" /\ UNCHANGED bp_best
       ELSE /\ bp_pc' = "done"
            /\ LET best_case == BestCase(bp_res')
                   values == OptimizedValues(bp_name, <<best_case.i1, best_case.i2>>)
               IN  bp_best' = [score |-> best_case.score,
                               first |-> values[1], second |-> values[2]]
    /\ UNCHANGED <<bp_name, bp_nb_leaks>>

(***************************************************************************)
(* FindPeaks.get_rejection_cause and FindPeaks.get_check_info_by_param,    *)
(* called once get_big_maxes has run                                       *)
(***************************************************************************)
\* variant testing percent_sim before peak_min_value
get_rejection_cause_sim_first(data, idx, p) ==
    LET prev_val == At(data, idx - 1)
        cur_val == At(data, idx)
        next_val == At(data, idx + 1)
        big_maxes == BigMaxesLoop(data, 1, At(data, 1) - At(data, 0), <<>>, p)
        kept == SelectSeq(big_maxes,
                          LAMBDA i : _has_few_enough_peaks(data, i, big_maxes, p.max_nb_peaks))
    IN  IF ~((cur_val > prev_val) /\ (cur_val > next_val)) THEN "not a local max"
        ELSE IF ~_is_close_to_abs_max(data, idx, p.percent_sim) THEN "percent_sim"
        ELSE IF ~_is_big_enough(cur_val - prev_val, next_val - cur_val, p.peak_min_value)
        THEN "peak_min_value"
        ELSE IF ~_has_few_enough_peaks(data, idx, big_maxes, p.max_nb_peaks)
        THEN "max_nb_peaks"
        ELSE IF ~_check_std_variation(data, kept, p.percent_std) THEN "percent_std"
        ELSE "peak detected"

\* the first element of the tuple get_rejection_cause(idx) returns
get_rejection_cause(data, idx, p) ==
    LET prev_val == At(data, idx - 1)
        cur_val == At(data, idx)
        next_val == At(data, idx + 1)
        big_maxes == BigMaxesLoop(data, 1, At(data, 1) - At(data, 0), <<>>, p)
        kept == SelectSeq(big_maxes,
                          LAMBDA i : _has_few_enough_peaks(data, i, big_maxes, p.max_nb_peaks))
    IN  IF ~((cur_val > prev_val) /\ (cur_val > next_val)) THEN "not a local max"
        ELSE IF ~_is_big_enough(cur_val - prev_val, next_val - cur_val, p.peak_min_value)
        THEN "peak_min_value"
        ELSE IF ~_is_close_to_abs_max(data, idx, p.percent_sim) THEN "percent_sim"
        ELSE IF ~_has_few_enough_peaks(data, idx, big_maxes, p.max_nb_peaks)
        THEN "max_nb_peaks"
        ELSE IF ~_check_std_variation(data, kept, p.percent_std) THEN "percent_std"
        ELSE "peak detected"

\* the while loop of get_check_info_by_param from index i on: the list
\* big_maxes; variations[i - 1] is abs(data[i] - data[i - 1])
RECURSIVE CheckInfoLoop(_, _, _, _)
CheckInfoLoop(data, i, big_maxes, p) ==
    IF ~(i < Len(data) - 1) THEN big_maxes
    ELSE LET cur_val == At(data, i)
             prev_val == At(data, i - 1)
             next_val == At(data, i + 1)
             variation_up == Abs(cur_val - prev_val)
             variation_down == Abs(next_val - cur_val)
             found == /\ (cur_val > prev_val) /\ (cur_val > next_val)
                      /\ _is_big_enough(variation_up, -variation_down, p.peak_min_value)
                      /\ _is_close_to_abs_max(data, i, p.percent_sim)
         IN  CheckInfoLoop(data, i + 1,
                           IF found THEN Append(big_maxes, i) ELSE big_maxes, p)

\* the entries big_maxes, first_big_maxes and leaks_detected of the
\* dictionary get_check_info_by_param returns
get_check_info_by_param(data, p) ==
    LET big_maxes == CheckInfoLoop(data, 1, <<>>, p)
        similar_values(i) == SelectSeq(big_maxes, LAMBDA elt : At(data, elt) >= At(data, i))
    IN  [big_maxes |-> SelectSeq(big_maxes,
                                 LAMBDA i : Len(similar_values(i)) <= p.max_nb_peaks),
         first_big_maxes |-> big_maxes,
         leaks_detected |->
             IF big_maxes = <<>> \/ _check_std_variation(data, big_maxes, p.percent_std)
             THEN big_maxes ELSE <<>>]

NoInfo == [big_maxes |-> <<>>, first_big_maxes |-> <<>>, leaks_detected |-> <<>>]

DgIdle == rc_idx = -1 /\ rc_cause = "" /\ ci_info = NoInfo

FindPeaks_get_rejection_cause ==
    /\ fp_pc = "done"
    /\ \E idx \in 1..(Len(fp_data) - 2) :
        /\ rc_idx' = idx
        /\ rc_cause' = get_rejection_cause(fp_data, idx, fp_params)
    /\ UNCHANGED <<fp_vars, ci_info>>

FindPeaks_get_check_info_by_param ==
    /\ fp_pc = "done"
    /\ ci_info' = get_check_info_by_param(fp_data, fp_params)
    /\ UNCHANGED <<fp_vars, rc_idx, rc_cause>>

(***************************************************************************)
(* prepare.update_day with count_daily_prefixes, from an empty merged      *)
(* store on                                                                *)
(***************************************************************************)
MaxDays == 3

\* the origin_asn of a line of day data: an int or a string
DayASNs == {[kind |-> "int", text |-> "1"], [kind |-> "str", text |-> "1"],
            [kind |-> "int", text |-> "2"]}

\* the lines of the data of one day
DayLines == [origin_asn : DayASNs, num_prefixes : {1, 2}]
DayData == UNION {[1..n -> DayLines] : n \in 0..2}

\* str(asn)
StrOf(asn) == asn.text

\* count_daily_prefixes: {asn: sum of num_prefixes of the lines of asn}
count_daily_prefixes(pfx_raw_data) ==
    LET nb_of(asn) == SumSeq([k \in DOMAIN pfx_raw_data |->
                                 IF pfx_raw_data[k].origin_asn = asn
                                 THEN pfx_raw_data[k].num_prefixes ELSE 0])
    IN  [asn \in {pfx_raw_data[k].origin_asn : k \in DOMAIN pfx_raw_data} |-> nb_of(asn)]

\* the first loop of update_day over data.iteritems() in the order given
RECURSIVE AppendLoop(_, _, _, _)
AppendLoop(merged_data, data, order, prev_len) ==
    IF order = <<>> THEN merged_data
    ELSE LET asn == StrOf(Head(order))
             nb == data[Head(order)]
             got == IF asn \in DOMAIN merged_data THEN merged_data[asn]
                    ELSE [k \in 1..prev_len |-> 0]
         IN  AppendLoop((asn :> Append(got, nb)) @@ merged_data, data, Tail(order), prev_len)

\* the second loop of update_day: add 0 for ASes not in day_data
PadLoop(merged_data, prev_len) ==
    [asn \in DOMAIN merged_data |->
        IF Len(merged_data[asn]) = prev_len THEN Append(merged_data[asn], 0)
        ELSE merged_data[asn]]

MdIdle == md_store = EmptyDict /\ md_recorded = <<>>

\* update_day(merged_data, day_data, count_daily_prefixes); first is the key
\* of merged_data.values()[0]
update_day ==
    /\ Len(md_recorded) < MaxDays
    /\ \E day_data \in DayData :
        LET data == count_daily_prefixes(day_data)
        IN  /\ \E order \in Perms(DOMAIN data) :
                \/ /\ md_store = EmptyDict
                   /\ md_store' = PadLoop(AppendLoop(md_store, data, order, 0), 0)
                \/ \E first \in DOMAIN md_store :
                       LET prev_len == Len(md_store[first])
                       IN  md_store' = PadLoop(AppendLoop(md_store, data, order, prev_len),
                                               prev_len)
            /\ md_recorded' = Append(md_recorded, {StrOf(asn) : asn \in DOMAIN data})

MoreIdle == BpIdle /\ DgIdle /\ MdIdle

ExtIdle == SmIdle /\ ApIdle /\ SwIdle /\ FtIdle /\ MoreIdle

(***************************************************************************)
(* Specifications                                                          *)
(***************************************************************************)
Init == /\ FPIdle /\ ExtIdle
        /\ \/ DetInit /\ ClfIdle
           \/ DetIdle /\ ClfInit

Next == \/ Construct
        \/ GetRouteLeaks
        \/ get_input_data
        \/ create_var_input

Spec == Init /\ [][Next]_vars

InitPeaks == /\ fp_pc = "new" /\ fp_data \in FPSeries /\ fp_params \in FPParams
             /\ fp_big_maxes = <<>>
             /\ DetIdle /\ ClfIdle /\ ExtIdle

NextPeaks == \/ FindPeaks_init /\ UNCHANGED <<det_vars, clf_vars, ext_vars>>
             \/ FindPeaks_get_big_maxes /\ UNCHANGED <<det_vars, clf_vars, ext_vars>>

SpecPeaks == InitPeaks /\ [][NextPeaks]_vars

\* the FindPeaks object with its diagnostic methods
others_diag == <<det_vars, clf_vars, sm_vars, ap_vars, sw_vars, ft_vars, bp_vars, md_vars>>

NextDiag == \/ FindPeaks_init /\ UNCHANGED <<det_vars, clf_vars, ext_vars>>
            \/ FindPeaks_get_big_maxes /\ UNCHANGED <<det_vars, clf_vars, ext_vars>>
            \/ FindPeaks_get_rejection_cause /\ UNCHANGED others_diag
            \/ FindPeaks_get_check_info_by_param /\ UNCHANGED others_diag

SpecDiag == InitPeaks /\ [][NextDiag]_vars

InitSmooth == FPIdle /\ DetIdle /\ ClfIdle /\ SmInit /\ ApIdle /\ SwIdle /\ FtIdle /\ MoreIdle

NextSmooth ==
    FindPeaks_speculate_missing_values
    /\ UNCHANGED <<fp_vars, det_vars, clf_vars, ap_vars, sw_vars, ft_vars, more_vars>>

SpecSmooth == InitSmooth /\ [][NextSmooth]_vars

InitClassif == FPIdle /\ DetIdle /\ ClfIdle /\ SmIdle /\ ApInit /\ SwIdle /\ FtIdle /\ MoreIdle

NextClassif ==
    \/ get_model_svm_classifier
       /\ UNCHANGED <<fp_vars, det_vars, clf_vars, sm_vars, sw_vars, ft_vars, more_vars>>
    \/ get_classification_result
       /\ UNCHANGED <<fp_vars, det_vars, clf_vars, sm_vars, sw_vars, ft_vars, more_vars>>

SpecClassif == InitClassif /\ [][NextClassif]_vars

InitSweep == FPIdle /\ DetIdle /\ ClfIdle /\ SmIdle /\ ApIdle /\ SwInit /\ FtIdle /\ MoreIdle

others_sweep == <<fp_vars, det_vars, clf_vars, sm_vars, ap_vars, ft_vars, more_vars>>

NextSweep ==
    \/ ParamValue_new /\ UNCHANGED others_sweep
    \/ calc_nb_leaks /\ UNCHANGED others_sweep
    \/ \E w \in Workers : TakeTask(w) /\ UNCHANGED others_sweep
    \/ \E w \in Workers : _detect(w) /\ UNCHANGED others_sweep
    \/ StoreResult /\ UNCHANGED others_sweep

SpecSweep == InitSweep /\ [][NextSweep]_vars

InitFitted == FPIdle /\ DetIdle /\ ClfIdle /\ SmIdle /\ ApIdle /\ SwIdle /\ FtInit /\ MoreIdle

NextFitted ==
    FittedFindRouteLeaks_init
    /\ UNCHANGED <<fp_vars, det_vars, clf_vars, sm_vars, ap_vars, sw_vars, more_vars>>

SpecFitted == InitFitted /\ [][NextFitted]_vars

InitBreak == /\ FPIdle /\ DetIdle /\ ClfIdle /\ SmIdle /\ ApIdle /\ SwIdle /\ FtIdle
             /\ DgIdle /\ MdIdle /\ BpInit

NextBreak ==
    get_param_optimized_values
    /\ UNCHANGED <<fp_vars, det_vars, clf_vars, sm_vars, ap_vars, sw_vars, ft_vars, dg_vars, md_vars>>

SpecBreak == InitBreak /\ [][NextBreak]_vars

\* the merged store of prepare.py, empty at first
InitPrepare == FPIdle /\ DetIdle /\ ClfIdle /\ ExtIdle

NextPrepare ==
    update_day
    /\ UNCHANGED <<fp_vars, det_vars, clf_vars, sm_vars, ap_vars, sw_vars, ft_vars,
                   bp_vars, dg_vars>>

SpecPrepare == InitPrepare /\ [][NextPrepare]_vars

\* the places where a parameter name is given: get_route_leaks and ParamValue
InitNames == /\ FPIdle /\ ClfIdle /\ SmIdle /\ ApIdle /\ FtIdle /\ MoreIdle
             /\ \/ DetInit /\ SwIdle
                \/ DetIdle /\ SwNew

NextNames == \/ Construct
             \/ GetRouteLeaks
             \/ ParamValue_new /\ UNCHANGED others_sweep

SpecNames == InitNames /\ [][NextNames]_vars

\* the detector on files where a day may have no data
InitGaps == FPIdle /\ ClfIdle /\ ExtIdle /\ GapInit

NextGaps == \/ Construct
            \/ GetRouteLeaks

SpecGaps == InitGaps /\ [][NextGaps]_vars

\* the detector on files of series with one or two spikes
InitTwin == FPIdle /\ ClfIdle /\ ExtIdle /\ TwinInit

NextTwin == \/ Construct
            \/ GetRouteLeaks

SpecTwin == InitTwin /\ [][NextTwin]_vars

(***************************************************************************)
(* Properties of the leak detector                                         *)
(***************************************************************************)
\* the last call of get_route_leaks returned a mapping
Returned == call.status = "returned"

\* the series of the prefixes have MIN_NB_DAYS values or more
LongEnough == \A a \in DOMAIN pfx_data : ~(Len(pfx_data[a]) < MIN_NB_DAYS)

\* the records of route_leaks are those of the ASes of both stores whose own
\* prefixes and conflicts series have a peak at the same index, their leaks
\* are these indexes (the dates of these indexes when the start date is
\* known), all of them strictly inside the series
LeaksAreCommonPeaks ==
    LET peaks(series, name) == Range(FindPeaksOf[series, PeakParams(params, name)].big_maxes)
        common(a) == peaks(pfx_data[a], "pfx_peak_min_value")
                         \cap peaks(cfl_data[a], "cfl_peak_min_value")
        dated(i) == IF start = None THEN i ELSE AddDays(start, i)
    IN  /\ DOMAIN route_leaks = {a \in DOMAIN pfx_data \cap DOMAIN cfl_data : common(a) # {}}
        /\ \A a \in DOMAIN route_leaks :
            /\ Range(route_leaks[a].leaks) = {dated(i) : i \in common(a)}
            /\ Len(route_leaks[a].leaks) = Cardinality(common(a))
            /\ \A i \in common(a) : /\ 0 < i
                                    /\ i < Len(pfx_data[a]) - 1
                                    /\ i < Len(cfl_data[a]) - 1

\* C1 as stated: whatever the stores and the parameters, the mapping that
\* get_route_leaks returns holds a record for an AS if and only if the peaks
\* of its prefixes and of its conflicts intersect, with exactly the common
\* indexes as leaks, each index i with 0 < i < len - 1.
C1_AnyStores == Returned => LeaksAreCommonPeaks

\* C1: when the series of the prefixes have at least MIN_NB_DAYS values, the
\* mapping that get_route_leaks returns holds a record for an AS if and only
\* if the peaks of its prefixes (found with pfx_peak_min_value) and of its
\* conflicts (found with cfl_peak_min_value) intersect, with exactly the
\* common indexes as leaks, each index i with 0 < i < len - 1.
C1_LongStores == (Returned /\ LongEnough) => LeaksAreCommonPeaks

\* a call returned a record for one AS and none for another AS of both stores
\* which has peaks in both of its series, at different indexes
C1_Witness ==
    /\ Returned /\ LongEnough
    /\ route_leaks # EmptyDict
    /\ \E b \in (DOMAIN pfx_peaks \cap DOMAIN cfl_peaks) \ DOMAIN route_leaks :
          b \in DOMAIN pfx_data \cap DOMAIN cfl_data

C3_AtMostMaxNbPeaks ==
    fp_pc = "done" => Len(fp_big_maxes) <= fp_params.max_nb_peaks

\* get_big_maxes found more candidates than max_nb_peaks and returned exactly
\* max_nb_peaks of them
C3_Witness ==
    /\ fp_pc = "done"
    /\ Len(fp_big_maxes) = fp_params.max_nb_peaks
    /\ Len(BigMaxesLoop(fp_data, 1, At(fp_data, 1) - At(fp_data, 0), <<>>, fp_params))
           > fp_params.max_nb_peaks

\* C4: with prefixes series shorter than MIN_NB_DAYS, get_route_leaks
\* returns the empty mapping without error, whatever the stores hold and
\* whatever keyword arguments it is called with.
C4_TooFewDataNoLeaks ==
    (call.status # "none" /\ pfx_data # EmptyDict /\ ~LongEnough) =>
        Returned /\ route_leaks = EmptyDict

\* a call with a keyword argument returned on short series, one AS having the
\* same spiky series in both stores
C4_Witness ==
    /\ Returned /\ ~LongEnough /\ pfx_data # EmptyDict
    /\ call.kwargs # EmptyDict
    /\ \E a \in DOMAIN pfx_data \cap DOMAIN cfl_data : pfx_data[a] = cfl_data[a]

\* C5: when the series of the prefixes and those of the conflicts do not
\* have the same length, get_route_leaks never returns a mapping.
C5_LengthMismatchIsFatal ==
    (\E a \in DOMAIN pfx_file.data, b \in DOMAIN cfl_file.data :
        Len(pfx_file.data[a]) # Len(cfl_file.data[b])) => ~Returned

\* C6: the construction from two files whose start dates differ, one of them
\* possibly having none, ends with ValueError: nothing is loaded and no call
\* of get_route_leaks takes place.
C6_DifferentStartsValueError ==
    (pc # "new" /\ pfx_file.start_date # cfl_file.start_date) =>
        /\ pc = "ValueError"
        /\ call = NoCall
        /\ pfx_data = EmptyDict /\ cfl_data = EmptyDict /\ route_leaks = EmptyDict

\* the construction raised ValueError with a dated prefixes file and a
\* conflicts file without start date
C6_Witness ==
    /\ pc = "ValueError"
    /\ pfx_file.start_date # None /\ cfl_file.start_date = None

\* C7 as stated: whatever calls of get_route_leaks took place, the five
\* parameters of the detector hold the values set at construction.
C7_ParamsAsConstructed == pc = "ready" => params = DefaultParams

\* C7: a call of get_route_leaks which runs the detection sets every
\* parameter named by a keyword argument to the value given and leaves the
\* other parameters as the calls before left them; a call on too short
\* series or which raises leaves all of them.
C7_OverridesPersist ==
    [][pc = "ready" =>
        IF call'.status = "returned" /\ LongEnough
        THEN \A name \in ParamNames :
                params'[name] = IF name \in DOMAIN call'.kwargs
                                THEN call'.kwargs[name] ELSE params[name]
        ELSE params' = params]_vars

\* a call without keyword argument returned with the pfx_peak_min_value an
\* earlier call was given
C7_Witness ==
    /\ Returned /\ call.kwargs = EmptyDict
    /\ params["pfx_peak_min_value"] # DefaultParams["pfx_peak_min_value"]

\* C8: after a detection, the peaks attributed to the ASes once the results
\* of the distinct series are copied back to their duplicates are the peaks
\* FindPeaks gives on the own series of every AS, and ASes with the same
\* series in both stores are in the mapping together, with the same leaks.
C8_CoalescingEquivalent ==
    (Returned /\ LongEnough) =>
        /\ pfx_peaks = _get_ases_with_peak(pfx_data, PeakParams(params, "pfx_peak_min_value"))
        /\ cfl_peaks = _get_ases_with_peak(cfl_data, PeakParams(params, "cfl_peak_min_value"))
        /\ \A a, b \in DOMAIN pfx_data \cap DOMAIN cfl_data :
              (pfx_data[a] = pfx_data[b] /\ cfl_data[a] = cfl_data[b]) =>
                  /\ (a \in DOMAIN route_leaks) = (b \in DOMAIN route_leaks)
                  /\ a \in DOMAIN route_leaks =>
                        Range(route_leaks[a].leaks) = Range(route_leaks[b].leaks)

\* a detection returned a record for an AS and for the ASes removed as its
\* duplicates
C8_Witness ==
    /\ Returned /\ LongEnough
    /\ \E a \in DOMAIN pfx_dupl_ases :
          /\ a \in DOMAIN pfx_peaks /\ a \in DOMAIN route_leaks
          /\ \A d \in Range(pfx_dupl_ases[a]) : d \in DOMAIN pfx_peaks /\ d \in DOMAIN route_leaks

\* C9: the leaks of every record are in ascending order, of indexes without
\* start date and of dates with one.
C9_LeaksSorted ==
    \A a \in DOMAIN route_leaks :
        \A i, j \in DOMAIN route_leaks[a].leaks :
            i < j => IF start = None
                     THEN route_leaks[a].leaks[i] < route_leaks[a].leaks[j]
                     ELSE DateLess(route_leaks[a].leaks[i], route_leaks[a].leaks[j])

\* C10 as stated: the series of the stores hold the values they were loaded
\* with, after any operation of the detection or of the classification.
C10_NeverModified ==
    /\ pc = "ready" => pfx_data = pfx_file.data /\ cfl_data = cfl_file.data
    /\ clf_pc \notin {"off", "new"} => raw_loaded_data = raw_file

\* C10: the detection leaves the series of its two stores as loaded, in the
\* stores and in the records it returns; get_input_data of the
\* classification overwrites every loaded series with its smoothed values,
\* which the computation of the variations then leaves untouched.
C10_OnlySmoothingRewrites ==
    /\ pc = "ready" =>
          /\ pfx_data = pfx_file.data /\ cfl_data = cfl_file.data
          /\ \A a \in DOMAIN route_leaks : /\ route_leaks[a].pfx_data = pfx_file.data[a]
                                           /\ route_leaks[a].cfl_data = cfl_file.data[a]
    /\ clf_pc = "loaded" =>
          /\ DOMAIN raw_loaded_data = DOMAIN raw_file
          /\ \A a \in DOMAIN raw_file :
                raw_loaded_data[a] = speculate_missing_values(raw_file[a], 10).data

\* the variations were computed on a series whose zeros get_input_data had
\* overwritten
C10_Witness ==
    /\ clf_pc = "loaded" /\ var_data # EmptyDict
    /\ \E a \in DOMAIN raw_file : raw_loaded_data[a] # raw_file[a]

(***************************************************************************)
(* Properties of the smoothing of the series                               *)
(***************************************************************************)
\* number of zeros of the list given to FindPeaks
NbZeroInput == Cardinality({k \in DOMAIN sm_input : sm_input[k].n = 0})

\* C11: after any number of calls of speculate_missing_values on a list
\* holding no zero, or MAX_NB_ZERO_TO_RM zeros or more, the list is as it was
\* given.
C11_NoOpOutsideZeroRange ==
    (sm_calls > 0 /\ (NbZeroInput = 0 \/ NbZeroInput >= MAX_NB_ZERO_TO_RM)) =>
        sm_pc = "done" /\ sm_data = sm_input

\* two calls were made on a list with MAX_NB_ZERO_TO_RM zeros or more and a
\* non-zero value
C11_Witness ==
    /\ sm_calls = 2 /\ sm_pc = "done"
    /\ NbZeroInput >= MAX_NB_ZERO_TO_RM
    /\ \E k \in DOMAIN sm_input : sm_input[k].n # 0

\* C12: after one call on a list holding between 1 and MAX_NB_ZERO_TO_RM - 1
\* zeros, a zero between two non-zero values is replaced by
\* (prev + next) / 2, a first zero by next and a last zero by prev, prev and
\* next being the neighbour when it is at less than peak_min_value / 2 of
\* the mean of the non-zero values, and that mean otherwise; the values are
\* compared as rationals.
C12_ZerosReplacedByMean ==
    (sm_calls = 1 /\ sm_pc = "done" /\ HasMissingValues(NbZeroInput)) =>
        LET no_zero == SelectSeq(sm_input, LAMBDA elt : elt.n # 0)
            total == NumSum(no_zero)
            avg == Num(total.n, total.d * Len(no_zero), TRUE)
            smooth(x) == IF 2 * Abs(x.n * avg.d - avg.n * x.d) < sm_peak_min_value * x.d * avg.d
                         THEN x ELSE avg
            same(a, b) == a.n * b.d = b.n * a.d
            last == Len(sm_input)
        IN  \A k \in DOMAIN sm_input :
                (/\ sm_input[k].n = 0
                 /\ k > 1 => sm_input[k - 1].n # 0
                 /\ k < last => sm_input[k + 1].n # 0) =>
                    IF k = 1 THEN same(sm_data[k], smooth(sm_input[k + 1]))
                    ELSE IF k = last THEN same(sm_data[k], smooth(sm_input[k - 1]))
                    ELSE LET sum == NumAdd(smooth(sm_input[k - 1]), smooth(sm_input[k + 1]))
                         IN  same(sm_data[k], Num(sum.n, 2 * sum.d, TRUE))

(***************************************************************************)
(* Properties of the classification                                        *)
(***************************************************************************)
\* number of times name is held by the list funcs
NbHeld(funcs, name) == Cardinality({k \in DOMAIN funcs : funcs[k] = name})

\* C13: whatever the number of ASes and of calls of load_makers and of
\* create_svm_input made so far, the registry holds each attribute maker
\* once in each list it is declared for, and the svm input holds for each AS
\* a vector of 13 * 2 + 9 attributes.
C13_VectorsOfConstantLength ==
    /\ \A asn \in DOMAIN ap_attr.svm_input : Len(ap_attr.svm_input[asn]) = 13 * 2 + 9
    /\ am_class # NoMakers =>
        \A k \in DOMAIN Makers :
            /\ NbHeld(am_class._makers_names, Makers[k].name) = 1
            /\ \A arg \in {"bilat", "unilat"} :
                NbHeld(am_class.attribute_makers[arg], Makers[k].name) =
                    IF arg \in Range(Makers[k].args) THEN 1 ELSE 0

\* the makers were loaded for the model data and for two classifications, the
\* last one giving a vector to every AS of the pool
C13_Witness ==
    /\ ap_paths = <<"_get_model_svm_classifier">>
    /\ ap_call = [status |-> "returned", nb |-> MaxClassifCalls]
    /\ DOMAIN ap_attr.svm_input = ASNS

\* the ASes of both stores whose normalized variations take at least two
\* values on each side
Qualifying ==
    LET varies(values) == \E i, j \in DOMAIN values : values[i].n * values[j].d # values[j].n * values[i].d
    IN  {asn \in DOMAIN ap_pfx_file \cap DOMAIN ap_cfl_file :
            varies(ap_attr.pfx_norm[asn]) /\ varies(ap_attr.cfl_norm[asn])}

\* C14: the result returned by get_classification_result has the qualifying
\* ASes as the ASes it labels, each under one label among PEAK and NORMAL,
\* and is {"PEAK": {}} when no AS qualifies.
C14_LabelsTheQualifyingASes ==
    ap_call.status = "returned" =>
        IF Qualifying = {} THEN ap_result = ("PEAK" :> EmptyDict)
        ELSE /\ DOMAIN ap_result \subseteq {"PEAK", "NORMAL"}
             /\ UNION {DOMAIN ap_result[label] : label \in DOMAIN ap_result} = Qualifying
             /\ \A asn \in Qualifying :
                    Cardinality({label \in DOMAIN ap_result : asn \in DOMAIN ap_result[label]}) = 1

\* one AS is labelled and another one, of both stores, is left out
C14_Witness ==
    /\ ap_call.status = "returned"
    /\ Qualifying # {}
    /\ (DOMAIN ap_pfx_file \cap DOMAIN ap_cfl_file) \ Qualifying # {}

\* C15: once get_model_svm_classifier has run, one load method has run: the
\* pickled model one when the pickled model is there, else the svm input one
\* when the svm input file is there, else the one working from the CSV files.
C15_OneLoadPathByPriority ==
    ap_pc = "ready" =>
        /\ Len(ap_paths) = 1
        /\ ap_model_files.svm_file =>
              ap_paths[1] = "_very_fast_get_model_svm_classifier"
        /\ (~ap_model_files.svm_file /\ ap_model_files.svm_input_file) =>
              ap_paths[1] = "_fast_get_model_svm_classifier"
        /\ (~ap_model_files.svm_file /\ ~ap_model_files.svm_input_file) =>
              ap_paths[1] = "_get_model_svm_classifier"

\* both the pickled model and the svm input file are there when the
\* classifier is loaded
C15_Witness ==
    /\ ap_pc = "ready"
    /\ ap_model_files.svm_file /\ ap_model_files.svm_input_file

(***************************************************************************)
(* Properties of the fitting of the parameters                             *)
(***************************************************************************)
\* C16: when calc_nb_leaks is over, whichever worker ran each point of the
\* grid and in whatever order the results came back, nb_leaks holds at each
\* index the number of ASes get_route_leaks finds with the swept parameter at
\* the value of that index and the four other ones at their neutral value.
C16_NbLeaksByGridPoint ==
    sw_pc = "done" =>
        /\ Len(sw_nb_leaks) = Len(lr_points[sw_name])
        /\ \A i \in DOMAIN sw_nb_leaks :
            LET prms == [name \in ParamNames |->
                            IF name = sw_name THEN lr_points[sw_name][i]
                            ELSE neutral_params[name]]
            IN  sw_nb_leaks[i] = DetectLen(sw_finder, prms, EmptyDict).nb

\* the sweep is over, its points do not all find the same number of ASes and
\* every worker ran some of them
C16_Witness ==
    /\ sw_pc = "done"
    /\ \E i, j \in DOMAIN sw_nb_leaks : sw_nb_leaks[i] # sw_nb_leaks[j]
    /\ \A w \in Workers : sw_workers[w].params # neutral_params

\* C17: a FittedFindRouteLeaks object holds every parameter it was given,
\* the value 0 included, and no fit is made for it; a parameter it was not
\* given holds the second breaking point of its fit for pfx_peak_min_value,
\* cfl_peak_min_value, percent_similarity and percent_std, and the first one
\* for max_nb_peaks.
C17_GivenKeptOthersFitted ==
    ft_pc = "ready" =>
        \A name \in ParamNames :
            IF name \in DOMAIN ft_supplied
            THEN ft_params[name] = ft_supplied[name] /\ name \notin DOMAIN ft_lr_data
            ELSE /\ name \in DOMAIN ft_lr_data
                 /\ ft_params[name] = IF name = "max_nb_peaks" THEN ft_lr_data[name][1]
                                      ELSE ft_lr_data[name][2]

\* the object was given 0 for a parameter and nothing for percent_std
C17_Witness ==
    /\ ft_pc = "ready"
    /\ \E name \in DOMAIN ft_supplied : name \in ParamNames /\ ft_supplied[name] = 0
    /\ "percent_std" \notin DOMAIN ft_supplied
    /\ "max_nb_peaks" \notin DOMAIN ft_supplied

\* the last call of get_route_leaks was given a keyword argument which is
\* not the name of a parameter
UnknownNameGiven == call.status # "none" /\ ~(DOMAIN call.kwargs \subseteq ParamNames)

\* C18 as stated: a name which is not the name of a parameter is an error
\* wherever it is given: ParamValue raises ValueError, and get_route_leaks
\* fails instead of returning the result of a detection.
C18_UnknownNameIsAnError ==
    /\ (sw_pc \notin {"off", "new"} /\ sw_name \notin ParamNames) => sw_pc = "ValueError"
    /\ UnknownNameGiven => ~Returned

\* C18: ParamValue raises ValueError for a name which is not the name of a
\* parameter, and for no other name; get_route_leaks leaves such a keyword
\* argument out: it adds nothing to the parameters, the call returns as soon
\* as the prefixes store is not empty, and on series of MIN_NB_DAYS values or
\* more what it returns is the result of the detection with the parameters of
\* the detector.
C18_UnknownNameValueErrorOrLeftOut ==
    /\ sw_pc \notin {"off", "new"} => ((sw_pc = "ValueError") <=> (sw_name \notin ParamNames))
    /\ UnknownNameGiven =>
        /\ DOMAIN params = ParamNames
        /\ pfx_data # EmptyDict => Returned
        /\ (Returned /\ LongEnough) => LeaksAreCommonPeaks

\* a call given a name which is not the name of a parameter returned leaks
C18_Witness ==
    /\ UnknownNameGiven /\ Returned /\ LongEnough
    /\ route_leaks # EmptyDict

(***************************************************************************)
(* Properties of the steps of get_big_maxes                                *)
(***************************************************************************)
\* the indexes the loop of get_big_maxes has found for the data of the
\* FindPeaks object
Candidates == BigMaxesLoop(fp_data, 1, At(fp_data, 1) - At(fp_data, 0), <<>>, fp_params)

\* C19: the loop of get_big_maxes finds the indexes i with 1 <= i <= len - 2
\* whose value is strictly greater than both neighbours by more than
\* peak_min_value and is at least percent_sim times the maximum of the
\* series, the index 1 as the other ones, in strictly increasing order; the
\* peaks returned are among them.
C19_CandidateRule ==
    fp_pc = "done" =>
        LET len == Len(fp_data)
            series(i) == fp_data[i + 1]
            is_candidate(i) ==
                /\ 1 <= i /\ i <= len - 2
                /\ series(i) > series(i - 1) /\ series(i) > series(i + 1)
                /\ series(i) - series(i - 1) > fp_params.peak_min_value
                /\ series(i) - series(i + 1) > fp_params.peak_min_value
                /\ 10 * series(i) >= fp_params.percent_sim * MaxSeq(fp_data)
        IN  /\ Range(Candidates) = {i \in 0..(len - 1) : is_candidate(i)}
            /\ \A k \in 1..(Len(Candidates) - 1) : Candidates[k] < Candidates[k + 1]
            /\ Range(fp_big_maxes) \subseteq Range(Candidates)

\* the index 1 is found, and a local maximum which rises by more than
\* peak_min_value and does not fall by more than it is not
C19_Witness ==
    /\ fp_pc = "done"
    /\ Candidates # <<>> /\ Candidates[1] = 1
    /\ \E i \in 1..(Len(fp_data) - 2) :
        /\ fp_data[i + 1] - fp_data[i] > fp_params.peak_min_value
        /\ fp_data[i + 1] > fp_data[i + 2]
        /\ fp_data[i + 1] - fp_data[i + 2] <= fp_params.peak_min_value

\* the candidates kept when nb_others other candidates at most may have a
\* value greater than or equal to theirs
KeptWith(nb_others) ==
    SelectSeq(Candidates,
              LAMBDA i : Cardinality({j \in Range(Candidates) \ {i} :
                                         fp_data[j + 1] >= fp_data[i + 1]}) <= nb_others)

\* what get_big_maxes returns when kept are the candidates left
ReturnedFor(kept) ==
    IF kept = <<>> \/ _check_std_variation(fp_data, kept, fp_params.percent_std)
    THEN kept ELSE <<>>

\* C20 as stated: a candidate is kept if and only if at most max_nb_peaks
\* other candidates have a value greater than or equal to its value.
C20_AtMostMaxNbPeaksOthers ==
    fp_pc = "done" => fp_big_maxes = ReturnedFor(KeptWith(fp_params.max_nb_peaks))

\* C20: a candidate is kept if and only if fewer than max_nb_peaks other
\* candidates have a value greater than or equal to its value, that is when
\* at most max_nb_peaks candidates, itself included, have such a value.
C20_FewerThanMaxNbPeaksOthers ==
    fp_pc = "done" => fp_big_maxes = ReturnedFor(KeptWith(fp_params.max_nb_peaks - 1))

\* a candidate with exactly max_nb_peaks other candidates at least as high is
\* left out and another one is returned
C20_Witness ==
    /\ fp_pc = "done"
    /\ fp_big_maxes # <<>>
    /\ \E i \in Range(Candidates) \ Range(fp_big_maxes) :
        Cardinality({j \in Range(Candidates) \ {i} : fp_data[j + 1] >= fp_data[i + 1]})
            = fp_params.max_nb_peaks

(***************************************************************************)
(* Properties of the standard deviation rule of get_big_maxes              *)
(***************************************************************************)
\* sum of the squares of Len(s) * s[k] - sum(s): Len(s)^3 times the
\* population variance of s
RECURSIVE DevSqFrom(_, _)
DevSqFrom(s, k) ==
    IF k > Len(s) THEN 0
    ELSE (Len(s) * s[k] - SumSeq(s)) * (Len(s) * s[k] - SumSeq(s)) + DevSqFrom(s, k + 1)

\* the series of the FindPeaks object without the values at indexes
RemovedFrom(indexes) ==
    LET left == {i \in 0..(Len(fp_data) - 1) : i \notin Range(indexes)}
        nth[k \in 0..Cardinality(left)] ==
            IF k = 0 THEN <<>>
            ELSE LET i == CHOOSE i \in left : Cardinality({j \in left : j < i}) = k - 1
                 IN  Append(nth[k - 1], fp_data[i + 1])
    IN  nth[Cardinality(left)]

\* the population standard deviation of the series without the values at
\* indexes is strictly less than percent_std (in tenths) times the one of
\* the whole series: var(rest) * 100 < percent_std^2 * var(series)
StdStrictlyLess(indexes) ==
    LET rest == RemovedFrom(indexes)
        n == Len(fp_data)
        m == Len(rest)
    IN  DevSqFrom(rest, 1) * 100 * n * n * n
            < fp_params.percent_std * fp_params.percent_std * DevSqFrom(fp_data, 1) * m * m * m

\* the crowd-filtered candidates of the FindPeaks object
CrowdFiltered == KeptWith(fp_params.max_nb_peaks - 1)

\* C21: get_big_maxes returns the whole crowd-filtered candidate set when the
\* population standard deviation of the series without those indexes is
\* strictly less than percent_std times the one of the whole series, and the
\* empty set otherwise; a crowd-filtered set which is not empty is returned
\* exactly when the test passes, and no proper part of it ever is.
C21_AllWhenStdDropsElseNone ==
    fp_pc = "done" =>
        /\ fp_big_maxes = IF StdStrictlyLess(CrowdFiltered) THEN CrowdFiltered ELSE <<>>
        /\ fp_big_maxes \in {CrowdFiltered, <<>>}
        /\ CrowdFiltered # <<>> =>
               (fp_big_maxes = CrowdFiltered <=> StdStrictlyLess(CrowdFiltered))

\* crowd-filtered candidates were left and the standard deviation test
\* discarded them all
C21_Witness ==
    /\ fp_pc = "done"
    /\ CrowdFiltered # <<>>
    /\ ~StdStrictlyLess(CrowdFiltered)
    /\ fp_big_maxes = <<>>

(***************************************************************************)
(* Properties of FindPeaks on short series                                 *)
(***************************************************************************)
\* C22: for every series of length below 3 (lengths 0, 1 and 2) the
\* constructor and get_big_maxes raise no error and the peaks returned are
\* the empty list.
C22_ShortSeriesNoPeakNoError ==
    Len(fp_data) < 3 =>
        /\ fp_pc \notin {"ValueError", "IndexError"}
        /\ fp_pc = "done" => fp_big_maxes = <<>>

(***************************************************************************)
(* Properties of the detection on series with missing values               *)
(***************************************************************************)
\* the ASes whose prefixes and conflicts series, seen through finder, have
\* a peak at the same index, with their common indexes
CommonPeaks(finder(_, _)) ==
    LET peaks(series, name) ==
            LET found == finder(series, PeakParams(params, name))
            IN  IF found.max_value >= params[name] THEN Range(found.big_maxes) ELSE {}
        common == [a \in DOMAIN pfx_data \cap DOMAIN cfl_data |->
                      peaks(pfx_data[a], "pfx_peak_min_value")
                          \cap peaks(cfl_data[a], "cfl_peak_min_value")]
    IN  [a \in {b \in DOMAIN common : common[b] # {}} |-> common[a]]

\* the records of route_leaks are those of the ASes of common, their leaks
\* the indexes of common
LeaksAre(common) ==
    /\ DOMAIN route_leaks = DOMAIN common
    /\ \A a \in DOMAIN common : Range(route_leaks[a].leaks) = common[a]

\* FindPeaks on the list as given
FindPeaks_loaded(data, p) ==
    [max_value |-> MaxSeq(data), big_maxes |-> get_big_maxes(data, p)]

\* C23 as stated: every series is smoothed before its peaks are looked for;
\* the peaks that get_route_leaks intersects are the peaks of the smoothed
\* prefixes and conflicts series.
C23_PeaksOfSmoothedSeries ==
    (Returned /\ LongEnough) => LeaksAre(CommonPeaks(FindPeaks_smoothed))

\* C23: the detection smooths no series; the peaks that get_route_leaks
\* intersects are the peaks of the prefixes and conflicts series as loaded,
\* the zero of a day without data taken as a value, and the series of the
\* stores and of the records returned are the loaded ones.
C23_PeaksOfLoadedSeries ==
    (Returned /\ LongEnough) =>
        /\ LeaksAre(CommonPeaks(FindPeaks_loaded))
        /\ pfx_data = pfx_file.data /\ cfl_data = cfl_file.data
        /\ \A a \in DOMAIN route_leaks : /\ route_leaks[a].pfx_data = pfx_file.data[a]
                                         /\ route_leaks[a].cfl_data = cfl_file.data[a]

\* a leak was returned for an AS whose series have a missing value, at a peak
\* which the smoothed prefixes series does not have
C23_Witness ==
    /\ Returned /\ LongEnough
    /\ \E a \in DOMAIN route_leaks :
        /\ \E k \in DOMAIN pfx_data[a] : pfx_data[a][k] = 0
        /\ \E i \in Range(route_leaks[a].leaks) :
            i \notin Range(FindPeaks_smoothed(pfx_data[a],
                                PeakParams(params, "pfx_peak_min_value")).big_maxes)

(***************************************************************************)
(* Properties of get_param_optimized_values                                *)
(***************************************************************************)
\* the points and the numbers of leaks of the ParamValue object, 0-based
GridValue(i) == fit_points[bp_name][i + 1]
NbLeaksAt(i) == bp_nb_leaks[i + 1]

\* the sum over the couples c of todo of (f[c1] - f[c2]) * (g[c1] - g[c2])
RECURSIVE CrossSum(_, _, _)
CrossSum(todo, f, g) ==
    IF todo = {} THEN 0
    ELSE LET c == CHOOSE one \in todo : TRUE
         IN  (f[c[1]] - f[c[2]]) * (g[c[1]] - g[c[2]]) + CrossSum(todo \ {c}, f, g)

\* R2 of the least squares line through the points lo .. hi (0-based, both
\* included) as <<numerator, denominator>>: the square of the correlation
\* of the grid values and the numbers of leaks, 1 when the numbers of leaks
\* do not vary
RSquared(lo, hi) ==
    LET couples == {c \in (lo..hi) \X (lo..hi) : c[1] < c[2]}
        xs == [i \in lo..hi |-> GridValue(i)]
        ys == [i \in lo..hi |-> NbLeaksAt(i)]
        xx == CrossSum(couples, xs, xs)
        yy == CrossSum(couples, ys, ys)
        xy == CrossSum(couples, xs, ys)
    IN  IF yy = 0 THEN <<1, 1>> ELSE <<xy * xy, xx * yy>>

\* three times the mean R2 of the fits on [0..i1], [i1..i2] and [i2..len - 1]
\* as a number
ThriceMeanScore(i1, i2) ==
    LET len == Len(fit_points[bp_name])
        r1 == RSquared(0, i1)
        r2 == RSquared(i1, i2)
        r3 == RSquared(i2, len - 1)
    IN  NumAdd(NumAdd(Num(r1[1], r1[2], TRUE), Num(r2[1], r2[2], TRUE)),
               Num(r3[1], r3[2], TRUE))

\* the cases of res are the pairs <<i1, i2>> (0-based) with lowest <= i1,
\* i1 + 2 <= i2 and i2 <= len - 2, each with the mean R2 of its three fits,
\* and the values returned are those of a pair of highest mean score,
\* with that score
ScoresPairsFrom(lowest) ==
    LET len == Len(fit_points[bp_name])
        pairs == {ii \in (0..(len - 1)) \X (0..(len - 1)) :
                     lowest <= ii[1] /\ ii[1] + 2 <= ii[2] /\ ii[2] <= len - 2}
        same(a, b) == a.n * b.d = b.n * a.d
        thrice(a) == Num(3 * a.n, a.d, TRUE)
    IN  /\ {<<bp_res[k].i1 - 1, bp_res[k].i2 - 1>> : k \in DOMAIN bp_res} = pairs
        /\ Len(bp_res) = Cardinality(pairs)
        /\ \A k \in DOMAIN bp_res :
              same(thrice(bp_res[k].score),
                   ThriceMeanScore(bp_res[k].i1 - 1, bp_res[k].i2 - 1))
        /\ \E ii \in pairs :
              /\ bp_best.first = GridValue(ii[1])
              /\ bp_best.second = GridValue(ii[2])
              /\ same(thrice(bp_best.score), ThriceMeanScore(ii[1], ii[2]))
              /\ \A jj \in pairs :
                    ~NumLess(ThriceMeanScore(ii[1], ii[2]), ThriceMeanScore(jj[1], jj[2]))

\* C24 as stated: get_param_optimized_values scores every pair <<i1, i2>> of
\* grid positions (0-based) with 1 <= i1, i1 + 2 <= i2 and i2 <= len - 2, each
\* as the mean R2 of the fits on [0..i1], [i1..i2], [i2..len - 1], no other
\* pair, and returns the grid values of the pair of highest mean score with
\* that score.
C24_PairsFromOne == bp_pc = "done" => ScoresPairsFrom(1)

\* C24: get_param_optimized_values scores every pair <<i1, i2>> of grid
\* positions (0-based) with 2 <= i1, i1 + 2 <= i2 and i2 <= len - 2, each as
\* the mean R2 of the fits on [0..i1], [i1..i2], [i2..len - 1], no other pair,
\* and returns the grid values of a pair of highest mean score with that
\* score; the first fit is on three points at least.
C24_PairsFromTwo == bp_pc = "done" => ScoresPairsFrom(2)

\* the pair returned is not the first one scored and has a higher mean
\* score than it, with a fit which is not exact
C24_Witness ==
    /\ bp_pc = "done"
    /\ Len(bp_res) >= 2
    /\ NumLess(bp_res[1].score, bp_best.score)
    /\ NumLess(bp_best.score, IntNum(1))
    /\ bp_best.first # GridValue(bp_res[1].i1 - 1)

(***************************************************************************)
(* Properties of the diagnostic methods of FindPeaks                       *)
(***************************************************************************)
\* the first of the rules, in the order not a local max, peak_min_value,
\* percent_sim, max_nb_peaks, percent_std, which rejects the index idx of
\* the series of the FindPeaks object, "peak detected" when none does
FirstRejecting(idx) ==
    LET series(i) == fp_data[i + 1]
        higher == {j \in Range(Candidates) : series(j) >= series(idx)}
    IN  IF ~(series(idx) > series(idx - 1) /\ series(idx) > series(idx + 1))
        THEN "not a local max"
        ELSE IF ~(/\ series(idx) - series(idx - 1) > fp_params.peak_min_value
                  /\ series(idx) - series(idx + 1) > fp_params.peak_min_value)
        THEN "peak_min_value"
        ELSE IF ~(10 * series(idx) >= fp_params.percent_sim * MaxSeq(fp_data))
        THEN "percent_sim"
        ELSE IF Cardinality(higher) > fp_params.max_nb_peaks THEN "max_nb_peaks"
        ELSE IF ~StdStrictlyLess(CrowdFiltered) THEN "percent_std"
        ELSE "peak detected"

\* C25: for every index idx with 1 <= idx <= len - 2, get_rejection_cause(idx)
\* reports 'peak detected' if and only if idx is one of the peaks get_big_maxes
\* returned for the same series and parameters, and otherwise reports the
\* first rule, in the order not a local max, peak_min_value, percent_sim,
\* max_nb_peaks, percent_std, which rejects idx.
C25_CauseIsFirstRejectingRule ==
    rc_idx # -1 =>
        /\ 1 <= rc_idx /\ rc_idx <= Len(fp_data) - 2
        /\ rc_cause = "peak detected" <=> rc_idx \in Range(fp_big_maxes)
        /\ rc_cause = FirstRejecting(rc_idx)

\* a local maximum was reported as rejected for peak_min_value while it is
\* also lower than percent_sim times the maximum of the series, in a series
\* which has a peak
C25_Witness ==
    /\ rc_idx # -1
    /\ rc_cause = "peak_min_value"
    /\ ~(10 * fp_data[rc_idx + 1] >= fp_params.percent_sim * MaxSeq(fp_data))
    /\ fp_big_maxes # <<>>

(***************************************************************************)
(* Properties of the neutral value of percent_std                          *)
(***************************************************************************)
\* C26: with percent_std = 1 (10 tenths) the standard deviation rule selects
\* nothing: whatever the series and the other parameters, crowd-filtered
\* candidates, when there are some, are all returned by get_big_maxes.
C26_PercentStdOneSelectsNothing ==
    (fp_pc = "done" /\ fp_params.percent_std = 10 /\ CrowdFiltered # <<>>) =>
        fp_big_maxes = CrowdFiltered

(***************************************************************************)
(* Properties of update_day                                                *)
(***************************************************************************)
\* C27: from an empty merged store on, after any sequence of calls of
\* update_day (the data of a day may be empty and may name new ASes) every
\* series of the store has as many values as calls were made and holds 0 at
\* the position of every day whose data had no record of its AS.
C27_OneValueByCall ==
    \A asn \in DOMAIN md_store :
        /\ Len(md_store[asn]) = Len(md_recorded)
        /\ \A day \in DOMAIN md_recorded :
              asn \notin md_recorded[day] => md_store[asn][day] = 0

\* C28: once get_big_maxes and get_check_info_by_param have both run on a
\* FindPeaks object, the 'leaks_detected' entry of the report is the peak
\* list get_big_maxes returned: the report shows no peak detection rejects
\* and omits none it accepts.
C28_ReportShowsDetectedPeaks ==
    (fp_pc = "done" /\ ci_info # NoInfo) => ci_info.leaks_detected = fp_big_maxes


\* the candidates of get_big_maxes on the prefixes series of asn with
\* pfx_peak_min_value v and the other parameters of the last call: the local
\* maximums passing the peak_min_value and percent_sim rules
PfxCandidates(asn, v) ==
    BigMaxesLoop(pfx_data[asn], 1, At(pfx_data[asn], 1) - At(pfx_data[asn], 0), <<>>,
                 PeakParams([params EXCEPT !["pfx_peak_min_value"] = v],
                            "pfx_peak_min_value"))

\* the peaks of the prefixes series of asn with pfx_peak_min_value v and the
\* other parameters of the last call
PfxPeaksWith(asn, v) ==
    get_big_maxes(pfx_data[asn], PeakParams([params EXCEPT !["pfx_peak_min_value"] = v],
                                            "pfx_peak_min_value"))

\* the parameters other than pfx_peak_min_value are the same before and
\* after the step
OthersKept ==
    \A name \in DOMAIN params \ {"pfx_peak_min_value"} : params'[name] = params[name]

\* C29: when a call of get_route_leaks follows another one on the same
\* stores with a pfx_peak_min_value at least as high and the other
\* parameters unchanged, the ASes it returns are among the ASes the
\* previous call returned.
C29_RaisingReturnsFewerASes ==
    [][(/\ call.status = "returned" /\ call'.status = "returned"
        /\ OthersKept
        /\ params["pfx_peak_min_value"] <= params'["pfx_peak_min_value"])
       => DOMAIN route_leaks' \subseteq DOMAIN route_leaks]_vars

\* C29 (amended): every prefixes peak found by get_route_leaks with
\* pfx_peak_min_value v2 is, for every v1 <= v2, a candidate of its series
\* with pfx_peak_min_value v1: raising the value adds no candidate, and an AS
\* returned with v2 can be missing with v1 only through the max_nb_peaks or
\* the percent_std rule.
C29_PeaksAreCandidatesBelow ==
    (Returned /\ LongEnough) =>
        \A asn \in DOMAIN pfx_peaks, v1 \in PoolMinValues :
            v1 <= params["pfx_peak_min_value"]
                => Range(pfx_peaks[asn]) \subseteq Range(PfxCandidates(asn, v1))

\* an AS is returned with pfx_peak_min_value 30 whose prefixes series has
\* no peak with pfx_peak_min_value 10
C29_Witness ==
    /\ Returned /\ LongEnough
    /\ params["pfx_peak_min_value"] = 30
    /\ \E asn \in DOMAIN route_leaks : PfxPeaksWith(asn, 10) = <<>>

\* C30: after one call of speculate_missing_values on a list holding between
\* 1 and MAX_NB_ZERO_TO_RM - 1 zeros, the call has returned without raising,
\* the list has the length it had and holds no 0, and every value other than
\* 0 is as it was given.
C30_NoZeroLeft ==
    (sm_calls = 1 /\ 1 <= NbZeroInput /\ NbZeroInput <= MAX_NB_ZERO_TO_RM - 1) =>
        /\ sm_pc = "done"
        /\ Len(sm_data) = Len(sm_input)
        /\ \A k \in DOMAIN sm_data :
              /\ sm_data[k].n # 0
              /\ sm_input[k].n # 0 => sm_data[k] = sm_input[k]

====
